---- MODULE Spec2Model ----
(***************************************************************************)
(* A model of the NES emulator core: the picture processor (src/src/ppu.rs) *)
(* with its scanline/dot clock and memory-mapped registers, the bus        *)
(* (src/src/bus.rs) that clocks it three dots per processor cycle, and the *)
(* processor's execution loop (src/src/cpu.rs) that drives the bus.        *)
(*                                                                         *)
(* The program state is held in records that mirror the Rust structs:      *)
(*   ppu  - NesPPU (with AddrRegister, ScrollRegister, StatusRegister,     *)
(*          ControlRegister inlined as fields)                             *)
(*   bus  - Bus (the cycle counter)                                        *)
(*   cpu  - CPU (the registers; its bus is the variable bus)               *)
(*   obs  - history variable: the last register access or tick, its       *)
(*          argument and return value, and per-frame event counts.  It is  *)
(*          written by the actions and read only by the properties.        *)
(* Operations are operators from a state to a state, composed by the       *)
(* actions in the order the code calls them.                               *)
(***************************************************************************)
EXTENDS Integers, Sequences, FiniteSets, TLC

VARIABLES ppu, bus, obs, cpu

vars == <<ppu, bus, obs, cpu>>

(***************************************************************************)
(* Bounds of the model.                                                    *)
(***************************************************************************)
\* Direct NesPPU::tick calls are made only while the dot accumulator stays
\* at or below this value (the accumulator is a usize in the code).
MaxDots == 700
\* The execution loop runs until the bus cycle counter reaches this value:
\* one whole frame (29781 cycles) and the start of the next.
MaxBusCycles == 29900
\* Per-frame event counts of the history variable are counted up to this.
CountCap == 2
\* Accesses (reads and writes) to the data port 0x2007 in one behaviour.
MaxDataAccesses == 2
\* Writes to the data port 0x2007 in one behaviour.
MaxDataWrites == 1
\* Store instructions executed in one behaviour of SpecDma.
MaxStores == 4
\* Bus ticks of one scanline's dots in one behaviour of SpecBus: 81 ticks
\* are 243 scanlines, into vertical blank.
MaxBusTicks == 81
\* Bus reads, peeks and writes in one behaviour of SpecBus.
MaxBusAccesses == 2
\* Reads of the controller port with strobe clear between two writes that
\* set strobe (SpecJoypad).
MaxShiftReads == 10
\* Writes to the mapper's registers (0x8000..0xFFFF) in one behaviour: ten
\* writes are two complete serial loads.
MaxMapperWrites == 10
\* Picture-side writes to character-RAM in one behaviour.
MaxChrWrites == 1
\* The largest program-bank and character-bank counts of the images decoded.
MaxPrgBanks == 2
MaxChrBanks == 1
\* Processor operations (reset or instruction handler) in one behaviour.
MaxCpuSteps == 5
\* Operations on the stack (handlers, interrupt entries, resets) in one
\* behaviour of SpecStack.
MaxStackSteps == 5

\* The iterations of the processor's loop a run of SpecRun takes, the reset
\* included.
MaxRunSteps == 6

\* Arguments of the direct NesPPU::tick calls: a fraction of a scanline,
\* exactly one scanline, two scanlines.
TickInputs == {31, 341, 682}
\* Bytes written to the control register: generate-NMI clear / set.
CtrlInputs == {\H00, \H80}
\* Bytes written to the scroll and address ports.
Bytes == {\H05, \H63, \HFF}
\* Bytes written to the address port ahead of data-port accesses: as high
\* bytes they select character memory (0x05), a nametable (0x63, which is
\* above 0x3F and is kept as 0x23), the range 0x3000..0x3EFF (0x30) and the
\* palette window (0x3F, 0xFF).
VramBytes == {\H05, \H30, \H3F, \H63, \HFF}
\* Bytes written to the control register: VRAM increment 1 / 32.
IncrementInputs == {\H00, \H04}
\* Bytes written to the data port.
DataBytes == {\H63}
\* The cartridge's character memory: 8 KiB with two non-zero bytes.
ChrRom == [len |-> \H2000, bytes |-> (\H0505 :> \H63) @@ (\H0525 :> \H05)]

(***************************************************************************)
(* Program constants.                                                      *)
(***************************************************************************)
DotsPerScanline == 341
VblankScanline == 241
ScanlinesPerFrame == 262
PpuTicksPerBusTick == 3
NmiCycles == 2

SPRITE_OVERFLOW == \H20
SPRITE_ZERO_HIT == \H40
VBLANK_STARTED == \H80
GENERATE_NMI == \H80
VRAM_ADD_INCREMENT == \H04

PPUCTRL == \H2000
PPUMASK == \H2001
PPUSTATUS == \H2002
OAMADDR == \H2003
OAMDATA == \H2004
PPUSCROLL == \H2005
PPUADDR == \H2006
PPUDATA == \H2007
OAMDMA == \H4014
JOYPAD1 == \H4016
JOYPAD2 == \H4017

RAM_MIRRORS_END == \H1FFF
PPU_REGISTERS_MIRRORS_END == \H3FFF

(***************************************************************************)
(* bitflags: contains / insert / remove of a single-bit flag in a byte.    *)
(***************************************************************************)
contains(bits, flag) == (bits \div flag) % 2 = 1

insert(bits, flag) == IF contains(bits, flag) THEN bits ELSE bits + flag

remove(bits, flag) == IF contains(bits, flag) THEN bits - flag ELSE bits

\* from_bits_truncate on a register all of whose eight bits are named.
from_bits_truncate(data) == data % 256

(***************************************************************************)
(* StatusRegister and ControlRegister accessors.                           *)
(***************************************************************************)
is_vblank_started(status) == contains(status, VBLANK_STARTED)

is_sprite_zero_hit(status) == contains(status, SPRITE_ZERO_HIT)

is_sprite_overflow(status) == contains(status, SPRITE_OVERFLOW)

set_vblank_started(status, value) ==
    IF value THEN insert(status, VBLANK_STARTED) ELSE remove(status, VBLANK_STARTED)

set_sprite_zero_hit(status, value) ==
    IF value THEN insert(status, SPRITE_ZERO_HIT) ELSE remove(status, SPRITE_ZERO_HIT)

set_sprite_overflow(status, value) ==
    IF value THEN insert(status, SPRITE_OVERFLOW) ELSE remove(status, SPRITE_OVERFLOW)

is_generate_nmi(ctrl) == contains(ctrl, GENERATE_NMI)

(***************************************************************************)
(* Byte arrays.  An array is held as the function from the indices of its  *)
(* non-zero cells to their bytes: `[0; N]` is the empty function, and a    *)
(* cell that is written 0 leaves the domain.                               *)
(***************************************************************************)
zeroed == [i \in {} |-> 0]

load(mem, i) == IF i \in DOMAIN mem THEN mem[i] ELSE 0

store(mem, i, v) ==
    IF v # 0 THEN (i :> v) @@ mem
    ELSE IF i \in DOMAIN mem THEN [j \in DOMAIN mem \ {i} |-> mem[j]]
    ELSE mem

\* u8 arithmetic and the bitwise `&` of two unsigned numbers.
wrapping_add(a, b) == (a + b) % 256

RECURSIVE bit_and(_, _)
bit_and(a, b) ==
    IF a = 0 \/ b = 0 THEN 0
    ELSE (a % 2) * (b % 2) + 2 * bit_and(a \div 2, b \div 2)

(***************************************************************************)
(* The picture processor after construction.  NesPPU_new is the processor  *)
(* with 2 KiB of zeroed character memory and horizontal mirroring;         *)
(* NesPPU_new_rom is given the cartridge's character memory (a Vec: its    *)
(* length and its bytes) and mirroring.                                    *)
(***************************************************************************)
NesPPU_new ==
    [ cycles |-> 0, scanline |-> 0, trigger_nmi |-> FALSE,
      status |-> 0, ctrl |-> 0,
      addr |-> [hi |-> 0, lo |-> 0, hi_ptr |-> TRUE],
      scroll |-> [x_val |-> 0, y_val |-> 0, latch |-> TRUE],
      mask |-> 0,
      chr_rom |-> [len |-> 2048, bytes |-> zeroed], mirroring |-> "HORIZONTAL",
      internal_data_buf |-> 0, oam_addr |-> 0,
      vram |-> zeroed, oam_data |-> zeroed, palette_table |-> zeroed ]

NesPPU_new_rom(chr_rom, mirroring) ==
    [NesPPU_new EXCEPT !.chr_rom = chr_rom, !.mirroring = mirroring]

(***************************************************************************)
(* NesPPU::tick.  The result carries the new state and the returned bool   *)
(* (a new frame has begun).                                                *)
(***************************************************************************)
\* Mutant: NMI-pending is raised whatever the generate-NMI bit.
tick_enter_vblank_always_nmi(p) ==
    LET st == set_sprite_zero_hit(set_vblank_started(p.status, TRUE), FALSE)
    IN  [p EXCEPT !.status = st, !.trigger_nmi = TRUE]

\* The block run when the scanline counter has just become 241.
tick_enter_vblank(p) ==
    LET st == set_sprite_zero_hit(set_vblank_started(p.status, TRUE), FALSE)
    IN  [p EXCEPT !.status = st,
                  !.trigger_nmi = IF is_generate_nmi(p.ctrl) THEN TRUE ELSE @]

\* The block run when the scanline counter has reached 262.
tick_wrap_frame(p) ==
    [p EXCEPT !.trigger_nmi = FALSE,
              !.scanline = 0,
              !.status = set_sprite_zero_hit(
                            set_sprite_overflow(
                               set_vblank_started(@, FALSE), FALSE), FALSE)]

\* `if self.cycles >= 341`: one scanline is taken off the accumulator.
tick_take_scanline(p) ==
    [p EXCEPT !.cycles = @ - DotsPerScanline, !.scanline = @ + 1]

NesPPU_tick(p, n) ==
    LET p0 == [p EXCEPT !.cycles = @ + n]
    IN  IF p0.cycles >= DotsPerScanline
        THEN LET p1 == tick_take_scanline(p0)
                 p2 == IF p1.scanline = VblankScanline
                       THEN tick_enter_vblank(p1) ELSE p1
             IN  IF p2.scanline >= ScanlinesPerFrame
                 THEN [ppu |-> tick_wrap_frame(p2), ret |-> TRUE]
                 ELSE [ppu |-> p2, ret |-> FALSE]
        ELSE [ppu |-> p0, ret |-> FALSE]

(***************************************************************************)
(* NesPPU::write_to_ctrl (0x2000 writes).                                  *)
(***************************************************************************)
\* Mutant: the vertical-blank bit is not consulted.
NesPPU_write_to_ctrl_any_time(p, value) ==
    LET prev_ctrl_status == is_generate_nmi(p.ctrl)
        c == from_bits_truncate(value)
    IN  [p EXCEPT !.ctrl = c,
                  !.trigger_nmi =
                      IF ~prev_ctrl_status /\ is_generate_nmi(c)
                      THEN TRUE ELSE @]

NesPPU_write_to_ctrl(p, value) ==
    LET prev_ctrl_status == is_generate_nmi(p.ctrl)
        c == from_bits_truncate(value)
    IN  [p EXCEPT !.ctrl = c,
                  !.trigger_nmi =
                      IF ~prev_ctrl_status /\ is_generate_nmi(c)
                         /\ is_vblank_started(p.status)
                      THEN TRUE ELSE @]

NesPPU_get_nmi_status(p) == p.trigger_nmi

(***************************************************************************)
(* AddrRegister (0x2006) and ScrollRegister (0x2005).                      *)
(***************************************************************************)
AddrRegister_get(a) == a.hi * 256 + a.lo

AddrRegister_set(a, data) ==
    [a EXCEPT !.hi = (data \div 256) % 256, !.lo = data % 256]

\* Mutant: the address is mirrored down to 15 bits.
AddrRegister_update_mirror_15_bits(a, data) ==
    LET a1 == IF a.hi_ptr THEN [a EXCEPT !.hi = data] ELSE [a EXCEPT !.lo = data]
        a2 == IF AddrRegister_get(a1) > \H7FFF
              THEN AddrRegister_set(a1, AddrRegister_get(a1) % \H8000)
              ELSE a1
    IN  [a2 EXCEPT !.hi_ptr = ~@]

\* Mutant: the address is not mirrored down to 14 bits.
AddrRegister_update_no_mirror(a, data) ==
    LET a1 == IF a.hi_ptr THEN [a EXCEPT !.hi = data] ELSE [a EXCEPT !.lo = data]
    IN  [a1 EXCEPT !.hi_ptr = ~@]

AddrRegister_update(a, data) ==
    LET a1 == IF a.hi_ptr THEN [a EXCEPT !.hi = data] ELSE [a EXCEPT !.lo = data]
        a2 == IF AddrRegister_get(a1) > \H3FFF
              THEN AddrRegister_set(a1, AddrRegister_get(a1) % \H4000)
              ELSE a1
    IN  [a2 EXCEPT !.hi_ptr = ~@]

AddrRegister_reset_latch(a) == [a EXCEPT !.hi_ptr = TRUE]

ScrollRegister_write(s, data) ==
    LET s1 == IF s.latch THEN [s EXCEPT !.x_val = data] ELSE [s EXCEPT !.y_val = data]
    IN  [s1 EXCEPT !.latch = ~@]

ScrollRegister_reset_latch(s) == [s EXCEPT !.latch = TRUE]

NesPPU_write_to_ppu_addr(p, value) ==
    [p EXCEPT !.addr = AddrRegister_update(@, value)]

NesPPU_write_scroll(p, data) ==
    [p EXCEPT !.scroll = ScrollRegister_write(@, data)]

(***************************************************************************)
(* The data port 0x2007: AddrRegister::increment, NesPPU::mirror_vram_addr,*)
(* NesPPU::read_data and NesPPU::write_to_data.  The *_panics predicates   *)
(* tell whether the call aborts the program (an explicit panic! arm or an  *)
(* index past the end of an array); the operators give the state and the   *)
(* returned byte of a call that does not.                                  *)
(***************************************************************************)
vram_addr_increment(ctrl) ==
    IF ~contains(ctrl, VRAM_ADD_INCREMENT) THEN 1 ELSE 32

AddrRegister_increment(a, inc) ==
    LET lo == a.lo
        a1 == [a EXCEPT !.lo = wrapping_add(a.lo, inc)]
        a2 == IF lo > a1.lo THEN [a1 EXCEPT !.hi = wrapping_add(a1.hi, 1)] ELSE a1
    IN  IF AddrRegister_get(a2) > \H3FFF
        THEN AddrRegister_set(a2, bit_and(AddrRegister_get(a2), \H3FFF))
        ELSE a2

NesPPU_increment_vram_addr(p) ==
    [p EXCEPT !.addr = AddrRegister_increment(@, vram_addr_increment(p.ctrl))]

\* Mutant: the second nametable of a horizontally mirrored cartridge is
\* given the second physical page.
NesPPU_mirror_vram_addr_flat(p, addr) ==
    LET vram_index == bit_and(addr, \H2FFF) - \H2000
        name_table == vram_index \div \H400
    IN  CASE p.mirroring = "VERTICAL" /\ name_table \in {2, 3} -> vram_index - \H800
          [] p.mirroring = "HORIZONTAL" /\ name_table = 2 -> vram_index - \H400
          [] p.mirroring = "HORIZONTAL" /\ name_table = 3 -> vram_index - \H800
          [] OTHER -> vram_index

NesPPU_mirror_vram_addr(p, addr) ==
    LET mirrored_vram == bit_and(addr, \H2FFF)
        vram_index == mirrored_vram - \H2000
        name_table == vram_index \div \H400
    IN  CASE p.mirroring = "VERTICAL" /\ name_table \in {2, 3} -> vram_index - \H800
          [] p.mirroring = "HORIZONTAL" /\ name_table \in {2, 1} -> vram_index - \H400
          [] p.mirroring = "HORIZONTAL" /\ name_table = 3 -> vram_index - \H800
          [] OTHER -> vram_index

\* read_data aborts in the 0x3000..0x3EFF arm, on a character-memory index
\* past the end of the Vec, on a nametable index past the 2048-byte vram and
\* on a palette index past the 32-byte table.
NesPPU_read_data_panics(p) ==
    LET addr == AddrRegister_get(p.addr)
    IN  \/ addr <= \H1FFF /\ addr >= p.chr_rom.len
        \/ addr >= \H2000 /\ addr <= \H2FFF /\ NesPPU_mirror_vram_addr(p, addr) >= 2048
        \/ addr >= \H3000 /\ addr <= \H3EFF
        \/ addr >= \H3F00 /\ addr - \H3F00 >= 32

NesPPU_read_data(p) ==
    LET addr == AddrRegister_get(p.addr)
        p1 == NesPPU_increment_vram_addr(p)
    IN  CASE addr <= \H1FFF ->
               [ppu |-> [p1 EXCEPT !.internal_data_buf = load(p.chr_rom.bytes, addr)],
                ret |-> p.internal_data_buf]
          [] addr >= \H2000 /\ addr <= \H2FFF ->
               [ppu |-> [p1 EXCEPT !.internal_data_buf =
                                     load(p.vram, NesPPU_mirror_vram_addr(p, addr))],
                ret |-> p.internal_data_buf]
          [] addr >= \H3F00 /\ addr <= \H3FFF ->
               [ppu |-> p1, ret |-> load(p.palette_table, addr - \H3F00)]
          [] OTHER -> [ppu |-> p1, ret |-> 0]

\* write_to_data aborts in the character-memory arm, in the 0x3000..0x3EFF
\* arm, on a nametable index past the 2048-byte vram and on a palette index
\* past the 32-byte table.
NesPPU_write_to_data_panics(p) ==
    LET addr == AddrRegister_get(p.addr)
    IN  \/ addr <= \H1FFF
        \/ addr >= \H2000 /\ addr <= \H2FFF /\ NesPPU_mirror_vram_addr(p, addr) >= 2048
        \/ addr >= \H3000 /\ addr <= \H3EFF
        \/ addr >= \H3F00 /\ addr - \H3F00 >= 32

NesPPU_write_to_data(p, data) ==
    LET addr == AddrRegister_get(p.addr)
        p1 == NesPPU_increment_vram_addr(p)
    IN  CASE addr >= \H2000 /\ addr <= \H2FFF ->
               [p1 EXCEPT !.vram = store(@, NesPPU_mirror_vram_addr(p, addr), data)]
          [] addr >= \H3F00 /\ addr <= \H3FFF ->
               [p1 EXCEPT !.palette_table = store(@, addr - \H3F00, data)]
          [] OTHER -> p1

(***************************************************************************)
(* The mask register 0x2001 and object-attribute memory: 0x2003, 0x2004    *)
(* and the 256-byte transfer of NesPPU::oam_dma_write.                     *)
(***************************************************************************)
NesPPU_write_mask(p, data) == [p EXCEPT !.mask = from_bits_truncate(data)]

NesPPU_oam_addr_write(p, data) == [p EXCEPT !.oam_addr = data]

NesPPU_oam_data_read(p) == load(p.oam_data, p.oam_addr)

NesPPU_oam_data_write(p, data) ==
    [p EXCEPT !.oam_data = store(@, p.oam_addr, data),
              !.oam_addr = wrapping_add(@, 1)]

\* `for byte in data.iter()`: the bytes data[lo], .. data[hi] in order (the
\* first half of the range, then the second; the test of the OAM address
\* has the first half evaluated before the second is begun).
RECURSIVE oam_dma_write_range(_, _, _, _)
oam_dma_write_range(p, data, lo, hi) ==
    IF lo = hi THEN NesPPU_oam_data_write(p, data[lo])
    ELSE LET mid == (lo + hi) \div 2
             l == oam_dma_write_range(p, data, lo, mid)
         IN  IF l.oam_addr \in 0 .. 255
             THEN oam_dma_write_range(l, data, mid + 1, hi)
             ELSE l

\* Mutant: the transfer starts at OAM address 0.
NesPPU_oam_dma_write_from_zero(p, data) ==
    oam_dma_write_range([p EXCEPT !.oam_addr = 0], data, 0, 255)

NesPPU_oam_dma_write(p, data) == oam_dma_write_range(p, data, 0, 255)

(***************************************************************************)
(* StatusRegister::read and NesPPU::read_status (0x2002 reads).            *)
(***************************************************************************)
\* Mutant: the byte is taken after the vertical-blank bit is cleared.
StatusRegister_read_after_clear(status) ==
    [status |-> remove(status, VBLANK_STARTED),
     ret |-> remove(status, VBLANK_STARTED)]

StatusRegister_read(status) ==
    [status |-> remove(status, VBLANK_STARTED), ret |-> status]

\* Mutant: the latches are left as they are.
NesPPU_read_status_keeps_latches(p) ==
    LET r == StatusRegister_read(p.status)
    IN  [ppu |-> [p EXCEPT !.status = r.status], ret |-> r.ret]

NesPPU_read_status(p) ==
    LET p1 == [p EXCEPT !.addr = AddrRegister_reset_latch(@),
                        !.scroll = ScrollRegister_reset_latch(@)]
        r == StatusRegister_read(p1.status)
    IN  [ppu |-> [p1 EXCEPT !.status = r.status], ret |-> r.ret]

(***************************************************************************)
(* NesPPU::peek_status and NesPPU::peek_data, which Bus::mem_peek calls.   *)
(* Their code is not in src/src/ppu.rs; they are taken from the            *)
(* specification's "Peek vs read": the value a read would produce, with    *)
(* nothing changed.                                                        *)
(***************************************************************************)
NesPPU_peek_status(p) == p.status

NesPPU_peek_data(p) ==
    LET addr == AddrRegister_get(p.addr)
    IN  IF addr >= \H3F00 THEN load(p.palette_table, addr - \H3F00)
        ELSE p.internal_data_buf

(***************************************************************************)
(* Joypad (src/src/joypad.rs): the strobe flag, the read index and the     *)
(* button byte (bit 0 = A, 1 = B, 2 = Select, 3 = Start, 4 = Up, 5 = Down, *)
(* 6 = Left, 7 = Right).                                                   *)
(***************************************************************************)
Joypad_new == [strobe_status |-> FALSE, button_index |-> 0, button_status |-> 0]

\* `(bits & (1 << index)) >> index`
button_bit(bits, index) == (bits \div (2 ^ index)) % 2

Joypad_write(j, data) ==
    IF data % 2 = 1
    THEN [j EXCEPT !.strobe_status = TRUE, !.button_index = 0]
    ELSE [j EXCEPT !.strobe_status = FALSE]

\* Mutant: the read index advances while strobe is set, too.
Joypad_read_always_shifts(j) ==
    IF j.button_index > 7 THEN [joypad |-> j, ret |-> 1]
    ELSE [joypad |-> [j EXCEPT !.button_index = @ + 1],
          ret |-> button_bit(j.button_status, j.button_index)]

Joypad_read(j) ==
    IF j.button_index > 7 THEN [joypad |-> j, ret |-> 1]
    ELSE LET response == button_bit(j.button_status, j.button_index)
         IN  [joypad |-> IF ~j.strobe_status /\ j.button_index <= 7
                         THEN [j EXCEPT !.button_index = @ + 1] ELSE j,
              ret |-> response]

\* Joypad::peek, which Bus::mem_peek calls.  Its code is not in
\* src/src/joypad.rs; it is taken from the specification's "Peek vs read":
\* the value a read would produce, with nothing changed.
Joypad_peek(j) ==
    IF j.button_index > 7 THEN 1 ELSE button_bit(j.button_status, j.button_index)

\* set_button_pressed_status with a single-bit button.
Joypad_set_button_pressed_status(j, button, status) ==
    [j EXCEPT !.button_status = IF status THEN insert(@, button) ELSE remove(@, button)]

(***************************************************************************)
(* Vec<u8>: the length and, as for the arrays, the non-zero bytes.         *)
(***************************************************************************)
vec_zeroed(n) == [len |-> n, bytes |-> zeroed]

(***************************************************************************)
(* Mapper0 (src/src/mapping/mapper0.rs).  The *_panics predicates tell     *)
(* whether the call aborts the program.                                    *)
(***************************************************************************)
Mapper0_new(prg_rom, chr_rom, mirroring, chr_is_ram) ==
    [ id |-> 0, prg_rom |-> prg_rom, prg_ram |-> vec_zeroed(\H2000),
      chr_rom |-> chr_rom, mirroring |-> mirroring, chr_is_ram |-> chr_is_ram ]

Mapper0_prg_ram_read(mp, addr) == load(mp.prg_ram.bytes, bit_and(addr, \H0FFF))

\* Mutant: a 16 KiB program-ROM is indexed without the `% 0x4000`.
Mapper0_prg_rom_index_unmirrored(mp, addr) == addr - \H8000

\* The index into prg_rom of a read of 0x8000..0xFFFF.
Mapper0_prg_rom_index(mp, addr) ==
    LET a == addr - \H8000
    IN  IF mp.prg_rom.len = \H4000 /\ a >= \H4000 THEN a % \H4000 ELSE a

Mapper0_cpu_read_panics(mp, addr) ==
    CASE addr >= \H6000 /\ addr <= \H7FFF -> FALSE
      [] addr >= \H8000 /\ addr <= \HFFFF ->
             Mapper0_prg_rom_index(mp, addr) >= mp.prg_rom.len
      [] OTHER -> TRUE

Mapper0_cpu_read(mp, addr) ==
    IF addr <= \H7FFF THEN Mapper0_prg_ram_read(mp, addr % \H2000)
    ELSE load(mp.prg_rom.bytes, Mapper0_prg_rom_index(mp, addr))

\* Mapper0::cpu_write is a panic! and nothing else.
Mapper0_cpu_write_panics(mp, addr, data) == TRUE

(***************************************************************************)
(* Mapper1 (src/src/mapping/mapper1.rs).                                   *)
(***************************************************************************)
Mapper1_new(prg_rom, chr_rom, mirroring, chr_is_ram) ==
    [ id |-> 1, prg_rom |-> prg_rom, prg_ram |-> vec_zeroed(\H2000),
      chr_rom |-> chr_rom,
      shift_register |-> 0, shift_count |-> 0,
      control |-> \H0C, chr_bank_0 |-> 0, chr_bank_1 |-> 0, prg_bank |-> \H10,
      prg_rom_bank_mode |-> 3, chr_rom_bank_mode |-> 0,
      prg_bank_offset_first |-> 0, prg_bank_offset_second |-> 0,
      chr_bank_0_offset |-> 0, chr_bank_1_offset |-> 0,
      mirroring |-> mirroring, chr_is_ram |-> chr_is_ram ]

\* update_banks aborts on nametable bits 01.
Mapper1_update_banks_panics(mp) == bit_and(mp.control, 3) = 1

Mapper1_update_banks(mp) ==
    LET prg_mode == (mp.control \div 4) % 4
        chr_mode == (mp.control \div 16) % 2
        nametable_bits == bit_and(mp.control, 3)
        bank == bit_and(mp.prg_bank, \H0F)
        first == CASE prg_mode \in {0, 1} -> bit_and(bank, \H0E) * \H4000
                   [] prg_mode = 2 -> 0
                   [] prg_mode = 3 -> bank * \H4000
        second == CASE prg_mode \in {0, 1} -> first + \H4000
                    [] prg_mode = 2 -> bank * \H4000
                    [] prg_mode = 3 -> ((mp.prg_rom.len \div \H4000) - 1) * \H4000
        chr_0 == bit_and(mp.chr_bank_0, \H1F) * \H1000
        chr_1 == IF chr_mode = 0 THEN chr_0 + \H1000
                 ELSE bit_and(mp.chr_bank_1, \H1F) * \H1000
    IN  [mp EXCEPT !.prg_rom_bank_mode = prg_mode,
                   !.chr_rom_bank_mode = chr_mode,
                   !.mirroring = IF nametable_bits = 3 THEN "HORIZONTAL"
                                 ELSE "VERTICAL",
                   !.prg_bank_offset_first = first,
                   !.prg_bank_offset_second = second,
                   !.chr_bank_0_offset = chr_0,
                   !.chr_bank_1_offset = chr_1]

\* The index into prg_rom of a read of 0x8000..0xFFFF.
Mapper1_prg_rom_index(mp, addr) ==
    IF addr <= \HBFFF THEN mp.prg_bank_offset_first + (addr - \H8000)
    ELSE mp.prg_bank_offset_second + (addr - \HC000)

Mapper1_cpu_read_panics(mp, addr) ==
    CASE addr >= \H6000 /\ addr <= \H7FFF -> FALSE
      [] addr >= \H8000 /\ addr <= \HFFFF ->
             Mapper1_prg_rom_index(mp, addr) >= mp.prg_rom.len
      [] OTHER -> TRUE

Mapper1_cpu_read(mp, addr) ==
    IF addr <= \H7FFF THEN load(mp.prg_ram.bytes, addr % \H2000)
    ELSE load(mp.prg_rom.bytes, Mapper1_prg_rom_index(mp, addr))

\* Mutant: a write with bit 7 set leaves the write counter as it is.
Mapper1_reset_keeps_count(mp) ==
    Mapper1_update_banks([mp EXCEPT !.shift_register = 0, !.control = \H0C])

\* `if data & 0x80 != 0 { .. }`
Mapper1_reset(mp) ==
    Mapper1_update_banks([mp EXCEPT !.shift_register = 0, !.shift_count = 0,
                                    !.control = \H0C])

\* The shift of a write with bit 7 clear.
Mapper1_shift(mp, data) ==
    [mp EXCEPT !.shift_register = (mp.shift_register \div 2) + (data % 2) * 16,
               !.shift_count = @ + 1]

\* `if self.shift_count == 5 { .. }` up to the call of update_banks.
Mapper1_load_register(mp, addr) ==
    LET register_index == (addr - \H8000) \div \H2000
        value == bit_and(mp.shift_register, \H1F)
        loaded == CASE register_index = 0 -> [mp EXCEPT !.control = value]
                    [] register_index = 1 -> [mp EXCEPT !.chr_bank_0 = value]
                    [] register_index = 2 -> [mp EXCEPT !.chr_bank_1 = value]
                    [] register_index = 3 -> [mp EXCEPT !.prg_bank = value]
    IN  [loaded EXCEPT !.shift_count = 0, !.shift_register = 0]

Mapper1_cpu_write_panics(mp, addr, data) ==
    CASE addr >= \H6000 /\ addr <= \H7FFF -> FALSE
      [] addr >= \H8000 /\ addr <= \HFFFF ->
             IF data >= \H80 THEN FALSE
             ELSE LET mp1 == Mapper1_shift(mp, data)
                  IN  /\ mp1.shift_count = 5
                      /\ Mapper1_update_banks_panics(Mapper1_load_register(mp1, addr))
      [] OTHER -> TRUE

Mapper1_cpu_write(mp, addr, data) ==
    IF addr <= \H7FFF
    THEN [mp EXCEPT !.prg_ram.bytes = store(@, addr % \H2000, data)]
    ELSE IF data >= \H80 THEN Mapper1_reset(mp)
    ELSE LET mp1 == Mapper1_shift(mp, data)
         IN  IF mp1.shift_count = 5
             THEN Mapper1_update_banks(Mapper1_load_register(mp1, addr))
             ELSE mp1

\* The index into chr_rom of a picture-side read of 0x0000..0x1FFF.
Mapper1_ppu_read_index(mp, addr) ==
    IF addr <= \H0FFF THEN mp.chr_bank_0_offset + addr
    ELSE mp.chr_bank_1_offset + addr

Mapper1_ppu_read_panics(mp, addr) ==
    addr >= \H2000 \/ Mapper1_ppu_read_index(mp, addr) >= mp.chr_rom.len

Mapper1_ppu_read(mp, addr) == load(mp.chr_rom.bytes, Mapper1_ppu_read_index(mp, addr))

\* The index into chr_rom of a picture-side write to 0x0000..0x1FFF.
Mapper1_ppu_write_index(mp, addr) ==
    IF addr <= \H0FFF THEN mp.chr_bank_0_offset + addr
    ELSE mp.chr_bank_1_offset + (addr - \H1000)

Mapper1_ppu_write_panics(mp, addr, data) ==
    \/ ~(mp.chr_is_ram /\ addr < \H2000)
    \/ Mapper1_ppu_write_index(mp, addr) >= mp.chr_rom.len

Mapper1_ppu_write(mp, addr, data) ==
    [mp EXCEPT !.chr_rom.bytes = store(@, Mapper1_ppu_write_index(mp, addr), data)]

(***************************************************************************)
(* The `dyn Mapper` the bus holds: the call goes to the mapper generated   *)
(* from the cartridge's mapper id.                                         *)
(***************************************************************************)
Mapper_cpu_read_panics(mp, addr) ==
    IF mp.id = 0 THEN Mapper0_cpu_read_panics(mp, addr)
    ELSE Mapper1_cpu_read_panics(mp, addr)

Mapper_cpu_read(mp, addr) ==
    IF mp.id = 0 THEN Mapper0_cpu_read(mp, addr) ELSE Mapper1_cpu_read(mp, addr)

Mapper_cpu_write_panics(mp, addr, data) ==
    IF mp.id = 0 THEN Mapper0_cpu_write_panics(mp, addr, data)
    ELSE Mapper1_cpu_write_panics(mp, addr, data)

\* Mapper0::cpu_write never returns.
Mapper_cpu_write(mp, addr, data) ==
    IF mp.id = 0 THEN mp ELSE Mapper1_cpu_write(mp, addr, data)

(***************************************************************************)
(* Bus.  A machine state m is [ppu |-> NesPPU, bus |-> Bus].               *)
(* The arms of mem_read / mem_write are taken in the order of the match.   *)
(* The cartridge window 0x6000..0xFFFF is routed to the mapper.  Bus_new is *)
(* the bus of the specifications that give it no address in that window;   *)
(* Bus_new_rom is the bus with the mapper generated from the cartridge.    *)
(***************************************************************************)
Bus_new == [cycles |-> 0, cpu_vram |-> zeroed, joypad1 |-> Joypad_new]

Bus_new_rom(mapper) ==
    [cycles |-> 0, cpu_vram |-> zeroed, joypad1 |-> Joypad_new, mapper |-> mapper]

ROM_MEM_START == \H6000

WriteOnlyPorts == {PPUCTRL, PPUMASK, OAMADDR, PPUSCROLL, PPUADDR, OAMDMA}

\* `addr & 0b0010000_00000111`, the mask mem_read, mem_peek and mem_write
\* apply to 0x2008..0x3FFF.
mirrored_addr(addr) == bit_and(addr, \H1007)

\* Bus::mem_read aborts on a write-only port and when the picture
\* processor's read_data does.
RECURSIVE Bus_mem_read_panics(_, _)
Bus_mem_read_panics(m, addr) ==
    CASE addr <= RAM_MIRRORS_END -> FALSE
      [] addr \in WriteOnlyPorts -> TRUE
      [] addr = PPUDATA -> NesPPU_read_data_panics(m.ppu)
      [] addr >= \H2008 /\ addr <= PPU_REGISTERS_MIRRORS_END ->
             Bus_mem_read_panics(m, mirrored_addr(addr))
      [] addr >= ROM_MEM_START -> Mapper_cpu_read_panics(m.bus.mapper, addr)
      [] OTHER -> FALSE

RECURSIVE Bus_mem_read(_, _)
Bus_mem_read(m, addr) ==
    CASE addr <= RAM_MIRRORS_END ->
             [m |-> m, ret |-> load(m.bus.cpu_vram, bit_and(addr, \H07FF))]
      [] addr = PPUSTATUS ->
             LET r == NesPPU_read_status(m.ppu)
             IN  [m |-> [m EXCEPT !.ppu = r.ppu], ret |-> r.ret]
      [] addr = OAMDATA -> [m |-> m, ret |-> NesPPU_oam_data_read(m.ppu)]
      [] addr = PPUDATA ->
             LET r == NesPPU_read_data(m.ppu)
             IN  [m |-> [m EXCEPT !.ppu = r.ppu], ret |-> r.ret]
      [] addr >= \H2008 /\ addr <= PPU_REGISTERS_MIRRORS_END ->
             Bus_mem_read(m, mirrored_addr(addr))
      [] addr >= ROM_MEM_START ->
             [m |-> m, ret |-> Mapper_cpu_read(m.bus.mapper, addr)]
      [] addr = JOYPAD1 ->
             LET r == Joypad_read(m.bus.joypad1)
             IN  [m |-> [m EXCEPT !.bus.joypad1 = r.joypad], ret |-> r.ret]
      [] OTHER -> [m |-> m, ret |-> 0]

\* The arms of Bus::mem_peek other than the mirror arm: a write-only port
\* gives 0x00.
Bus_mem_peek_port(m, addr) ==
    CASE addr <= RAM_MIRRORS_END -> load(m.bus.cpu_vram, bit_and(addr, \H07FF))
      [] addr \in WriteOnlyPorts -> 0
      [] addr = PPUSTATUS -> NesPPU_peek_status(m.ppu)
      [] addr = OAMDATA -> NesPPU_oam_data_read(m.ppu)
      [] addr = PPUDATA -> NesPPU_peek_data(m.ppu)
      [] addr >= ROM_MEM_START -> Mapper_cpu_read(m.bus.mapper, addr)
      [] addr = JOYPAD1 -> Joypad_peek(m.bus.joypad1)
      [] OTHER -> 0

\* Mutant: the mirror arm keeps bit 13 and the low three bits of the
\* address (mask 0x2007).
Bus_mem_peek_8_bytes(m, addr) ==
    IF addr >= \H2008 /\ addr <= PPU_REGISTERS_MIRRORS_END
    THEN Bus_mem_peek_port(m, bit_and(addr, \H2007))
    ELSE Bus_mem_peek_port(m, addr)

\* Bus::mem_peek takes `&self`: it returns a byte and changes nothing.
RECURSIVE Bus_mem_peek(_, _)
Bus_mem_peek(m, addr) ==
    IF addr >= \H2008 /\ addr <= PPU_REGISTERS_MIRRORS_END
    THEN Bus_mem_peek(m, mirrored_addr(addr))
    ELSE Bus_mem_peek_port(m, addr)

\* The reads `data[i] = self.mem_read(cpu_addr + i)` of the 0x4014 arm for
\* i = lo, .. hi in order (the first half of the range, then the second):
\* the state they leave, the bytes read, and whether one of them aborted
\* (the reads after it are not made).
RECURSIVE dma_read_range(_, _, _, _)
dma_read_range(m, cpu_addr, lo, hi) ==
    IF lo = hi
    THEN IF Bus_mem_read_panics(m, cpu_addr + lo)
         THEN [m |-> m, data |-> (lo :> 0), panic |-> TRUE]
         ELSE LET r == Bus_mem_read(m, cpu_addr + lo)
              IN  [m |-> r.m, data |-> (lo :> r.ret), panic |-> FALSE]
    ELSE LET mid == (lo + hi) \div 2
             l == dma_read_range(m, cpu_addr, lo, mid)
         IN  IF l.panic THEN l
             ELSE LET r == dma_read_range(l.m, cpu_addr, mid + 1, hi)
                  IN  [m |-> r.m, data |-> l.data @@ r.data, panic |-> r.panic]

dma_read(m, data) == dma_read_range(m, data * 256, 0, 255)

\* Bus::mem_write aborts on the read-only status port, when the picture
\* processor's write_to_data does, and when a read of the 0x4014 transfer
\* does.
RECURSIVE Bus_mem_write_panics(_, _, _)
Bus_mem_write_panics(m, addr, data) ==
    CASE addr <= RAM_MIRRORS_END -> FALSE
      [] addr = PPUSTATUS -> TRUE
      [] addr = PPUDATA -> NesPPU_write_to_data_panics(m.ppu)
      [] addr >= \H2008 /\ addr <= PPU_REGISTERS_MIRRORS_END ->
             Bus_mem_write_panics(m, mirrored_addr(addr), data)
      [] addr >= ROM_MEM_START -> Mapper_cpu_write_panics(m.bus.mapper, addr, data)
      [] addr = OAMDMA -> dma_read(m, data).panic
      [] OTHER -> FALSE

RECURSIVE Bus_mem_write(_, _, _)
Bus_mem_write(m, addr, data) ==
    CASE addr <= RAM_MIRRORS_END ->
             [m EXCEPT !.bus.cpu_vram = store(@, bit_and(addr, \H07FF), data)]
      [] addr = PPUCTRL   -> [m EXCEPT !.ppu = NesPPU_write_to_ctrl(@, data)]
      [] addr = PPUMASK   -> [m EXCEPT !.ppu = NesPPU_write_mask(@, data)]
      [] addr = OAMADDR   -> [m EXCEPT !.ppu = NesPPU_oam_addr_write(@, data)]
      [] addr = OAMDATA   -> [m EXCEPT !.ppu = NesPPU_oam_data_write(@, data)]
      [] addr = PPUSCROLL -> [m EXCEPT !.ppu = NesPPU_write_scroll(@, data)]
      [] addr = PPUADDR   -> [m EXCEPT !.ppu = NesPPU_write_to_ppu_addr(@, data)]
      [] addr = PPUDATA   -> [m EXCEPT !.ppu = NesPPU_write_to_data(@, data)]
      [] addr >= \H2008 /\ addr <= PPU_REGISTERS_MIRRORS_END ->
             Bus_mem_write(m, mirrored_addr(addr), data)
      [] addr >= ROM_MEM_START ->
             [m EXCEPT !.bus.mapper = Mapper_cpu_write(@, addr, data)]
      [] addr = OAMDMA ->
             LET r == dma_read(m, data)
             IN  [r.m EXCEPT !.ppu = NesPPU_oam_dma_write(@, r.data)]
      [] addr = JOYPAD1 -> [m EXCEPT !.bus.joypad1 = Joypad_write(@, data)]
      [] OTHER -> m

\* `for _ in 0..3 { self.ppu.tick(cycles) }`: k ticks of `cycles` dots each;
\* ret tells whether any of them began a new frame.
RECURSIVE ppu_tick_times(_, _, _)
ppu_tick_times(p, cycles, k) ==
    IF k = 0 THEN [ppu |-> p, ret |-> FALSE]
    ELSE LET t == NesPPU_tick(p, cycles)
             r == ppu_tick_times(t.ppu, cycles, k - 1)
         IN  [ppu |-> r.ppu, ret |-> t.ret \/ r.ret]

\* Mutant: the picture processor is ticked once per bus tick.
Bus_tick_ppu_once(p, cycles) == ppu_tick_times(p, cycles, 1)

Bus_tick_ppu(p, cycles) == ppu_tick_times(p, cycles, PpuTicksPerBusTick)

\* Bus::tick.  callback tells whether the frame-ready callback was invoked.
Bus_tick(m, cycles) ==
    LET nmi_before == m.ppu.trigger_nmi
        t == Bus_tick_ppu(m.ppu, cycles)
        nmi_after == t.ppu.trigger_nmi
    IN  [m |-> [ppu |-> t.ppu, bus |-> [m.bus EXCEPT !.cycles = @ + cycles]],
         callback |-> ~nmi_before /\ nmi_after,
         new_frame |-> t.ret]

Bus_poll_nmi_status(m) == NesPPU_get_nmi_status(m.ppu)

(***************************************************************************)
(* CPU (src/src/cpu.rs): the registers.  The operations take the registers *)
(* c and the machine m behind the bus and give both back.                  *)
(***************************************************************************)
\* The value of F for the value of e: one operation after another.
Then(e, F(_)) == CHOOSE y \in {F(x) : x \in {e}} : TRUE

CPU_new ==
    [reg_a |-> 0, status |-> 0, pc |-> 0, sp |-> \HFF, reg_x |-> 0, reg_y |-> 0,
     extra_cycles |-> 0, test |-> FALSE]

\* Bus::mem_read_u16: the low byte from addr, then the high byte from
\* addr + 1, for addr below 0xFFFF.
Bus_mem_read_u16_panics(m, addr) ==
    \/ Bus_mem_read_panics(m, addr)
    \/ \E lo \in {Bus_mem_read(m, addr)} : Bus_mem_read_panics(lo.m, addr + 1)

Bus_mem_read_u16(m, addr) ==
    Then(Bus_mem_read(m, addr), LAMBDA lo :
    Then(Bus_mem_read(lo.m, addr + 1), LAMBDA hi :
        [m |-> hi.m, ret |-> hi.ret * 256 + lo.ret]))

CPU_update_z_and_n_flags(c, value) ==
    LET z == IF value = 0 THEN insert(c.status, 2) ELSE remove(c.status, 2)
    IN  [c EXCEPT !.status = IF bit_and(value, \H80) # 0 THEN insert(z, \H80)
                             ELSE remove(z, \H80)]

CPU_inx(c) ==
    LET x == (c.reg_x + 1) % 256
    IN  CPU_update_z_and_n_flags([c EXCEPT !.reg_x = x], x)

CPU_iny(c) ==
    LET y == (c.reg_y + 1) % 256
    IN  CPU_update_z_and_n_flags([c EXCEPT !.reg_y = y], y)

CPU_tya(c) == CPU_update_z_and_n_flags([c EXCEPT !.reg_a = c.reg_y], c.reg_y)

CPU_txs(c) == [c EXCEPT !.sp = c.reg_x]

CPU_sec(c) == [c EXCEPT !.status = insert(@, 1)]

\* CPU::reset aborts when the read of the reset vector does.
CPU_reset_panics(c, m) == Bus_mem_read_u16_panics(m, \HFFFC)

CPU_reset(c, m) ==
    Then(Bus_mem_read_u16(m, \HFFFC), LAMBDA r :
        [cpu |-> [c EXCEPT !.reg_a = 0, !.reg_x = 0, !.status = \H20,
                           !.sp = \HFF, !.pc = r.ret],
         m |-> r.m])

\* Bus::mem_write_u16: the low byte to addr, then the high byte to addr + 1.
Bus_mem_write_u16(m, addr, data) ==
    Then(Bus_mem_write(m, addr, data % 256), LAMBDA m1 :
        Bus_mem_write(m1, addr + 1, data \div 256))

(***************************************************************************)
(* The stack.  The pushes and pulls of the code below are given the stack  *)
(* pointer's page in the processor's own RAM, where no access aborts.      *)
(***************************************************************************)
CPU_stack_push(c, m, data) ==
    [cpu |-> [c EXCEPT !.sp = (c.sp - 1) % 256],
     m |-> Bus_mem_write(m, \H0100 + c.sp, data)]

\* `sp -= 1; mem_write_u16(0x0100 + sp, data); sp -= 1`.
CPU_stack_push_u16(c, m, data) ==
    LET sp1 == (c.sp - 1) % 256
    IN  [cpu |-> [c EXCEPT !.sp = (sp1 - 1) % 256],
         m |-> Bus_mem_write_u16(m, \H0100 + sp1, data)]

CPU_stack_read(c, m) == Bus_mem_read(m, \H0100 + c.sp)

CPU_stack_read_u16(c, m) == Bus_mem_read_u16(m, \H0100 + c.sp)

CPU_stack_pop(c) == [c EXCEPT !.sp = (c.sp + 1) % 256]

\* The flag bits of the status byte.
FLAG_C == \H01
FLAG_Z == \H02
FLAG_I == \H04
FLAG_B == \H10
FLAG_5 == \H20
FLAG_V == \H40
FLAG_N == \H80

\* CPU::interrupt_nmi with the registers: push PC, push the flags, set I,
\* tick the bus, load PC.  It aborts when the read of the vector does.
CPU_interrupt_nmi_regs_panics(c, m) == Bus_mem_read_u16_panics(m, \HFFFA)

CPU_interrupt_nmi_regs(c, m) ==
    LET flag == insert(remove(c.status, FLAG_B), FLAG_5)
    IN  Then(CPU_stack_push_u16(c, m, c.pc), LAMBDA p :
        Then(CPU_stack_push(p.cpu, p.m, flag), LAMBDA q :
        Then(Bus_tick(q.m, NmiCycles), LAMBDA t :
        Then(Bus_mem_read_u16(t.m, \HFFFA), LAMBDA r :
            [cpu |-> [q.cpu EXCEPT !.status = insert(c.status, FLAG_I), !.pc = r.ret],
             m |-> r.m]))))

\* CPU::interrupt_irq, for pc below 0xFFFF.
CPU_interrupt_irq(c, m) ==
    LET flag == insert(insert(c.status, FLAG_B), FLAG_5)
    IN  Then(CPU_stack_push_u16(c, m, c.pc + 1), LAMBDA p :
        Then(CPU_stack_push(p.cpu, p.m, flag), LAMBDA q :
        Then(Bus_tick(q.m, NmiCycles), LAMBDA t :
        Then(Bus_mem_read_u16(t.m, \HFFFE), LAMBDA r :
            [cpu |-> [q.cpu EXCEPT !.status = insert(c.status, FLAG_I), !.pc = r.ret],
             m |-> r.m]))))

\* CPU::rti: pull the flags, then PC.
CPU_rti(c, m) ==
    Then(CPU_stack_pop(c), LAMBDA c1 :
    Then(CPU_stack_read(c1, m), LAMBDA f :
    Then(CPU_stack_pop([c1 EXCEPT !.status = f.ret]), LAMBDA c2 :
    Then(CPU_stack_read_u16(c2, f.m), LAMBDA w :
        [cpu |-> CPU_stack_pop([c2 EXCEPT !.pc = w.ret]), m |-> w.m]))))

CPU_pha(c, m) == CPU_stack_push(c, m, c.reg_a)

\* CPU::php: update_b_flag(true) on the live status, then push it.
CPU_php(c, m) ==
    LET b == [c EXCEPT !.status = insert(@, FLAG_B)]
    IN  CPU_stack_push(b, m, b.status)

CPU_pla(c, m) ==
    Then(CPU_stack_pop(c), LAMBDA c1 :
    Then(CPU_stack_read(c1, m), LAMBDA r :
        [cpu |-> CPU_update_z_and_n_flags([c1 EXCEPT !.reg_a = r.ret], r.ret),
         m |-> r.m]))

CPU_plp(c, m) ==
    Then(CPU_stack_pop(c), LAMBDA c1 :
    Then(CPU_stack_read(c1, m), LAMBDA r :
        [cpu |-> [c1 EXCEPT !.status = r.ret], m |-> r.m]))

\* CPU::decrement: `(value as i8).wrapping_sub(1) as u8`, and the flags.
CPU_dex(c) ==
    LET x == (c.reg_x - 1) % 256
    IN  CPU_update_z_and_n_flags([c EXCEPT !.reg_x = x], x)

(***************************************************************************)
(* The instructions.  A handler is given the registers as the loop leaves  *)
(* them after the fetch (pc at the byte after the opcode) and the machine, *)
(* and gives both back; its *_panics predicate tells whether one of its    *)
(* bus reads aborts.                                                       *)
(***************************************************************************)
u16(n) == n % 65536

RECURSIVE bit_xor(_, _)
bit_xor(a, b) ==
    IF a = 0 THEN b
    ELSE IF b = 0 THEN a
    ELSE ((a + b) % 2) + 2 * bit_xor(a \div 2, b \div 2)

\* The entries of OPCODE_TABLE of the instructions modelled here.
OpCodes ==
    {[opcode |-> \H00, code |-> "BRK", bytes |-> 1, cycles |-> 7, mode |-> "NoneAddressing"],
     [opcode |-> \HA9, code |-> "LDA", bytes |-> 2, cycles |-> 2, mode |-> "Immediate"],
     [opcode |-> \HA2, code |-> "LDX", bytes |-> 2, cycles |-> 2, mode |-> "Immediate"],
     [opcode |-> \H69, code |-> "ADC", bytes |-> 2, cycles |-> 2, mode |-> "Immediate"],
     [opcode |-> \HE9, code |-> "SBC", bytes |-> 2, cycles |-> 2, mode |-> "Immediate"],
     [opcode |-> \H18, code |-> "CLC", bytes |-> 1, cycles |-> 2, mode |-> "NoneAddressing"],
     [opcode |-> \H38, code |-> "SEC", bytes |-> 1, cycles |-> 2, mode |-> "NoneAddressing"],
     [opcode |-> \H90, code |-> "BCC", bytes |-> 2, cycles |-> 2, mode |-> "NoneAddressing"],
     [opcode |-> \HB0, code |-> "BCS", bytes |-> 2, cycles |-> 2, mode |-> "NoneAddressing"],
     [opcode |-> \HF0, code |-> "BEQ", bytes |-> 2, cycles |-> 2, mode |-> "NoneAddressing"],
     [opcode |-> \H30, code |-> "BMI", bytes |-> 2, cycles |-> 2, mode |-> "NoneAddressing"],
     [opcode |-> \HD0, code |-> "BNE", bytes |-> 2, cycles |-> 2, mode |-> "NoneAddressing"],
     [opcode |-> \H10, code |-> "BPL", bytes |-> 2, cycles |-> 2, mode |-> "NoneAddressing"],
     [opcode |-> \H50, code |-> "BVC", bytes |-> 2, cycles |-> 2, mode |-> "NoneAddressing"],
     [opcode |-> \H70, code |-> "BVS", bytes |-> 2, cycles |-> 2, mode |-> "NoneAddressing"],
     [opcode |-> \H4C, code |-> "JMP", bytes |-> 3, cycles |-> 3, mode |-> "Immediate"],
     [opcode |-> \H6C, code |-> "JMP", bytes |-> 3, cycles |-> 5, mode |-> "Absolute"],
     [opcode |-> \H20, code |-> "JSR", bytes |-> 3, cycles |-> 6, mode |-> "Absolute"],
     [opcode |-> \H60, code |-> "RTS", bytes |-> 1, cycles |-> 6, mode |-> "NoneAddressing"],
     [opcode |-> \HEA, code |-> "NOP", bytes |-> 1, cycles |-> 2, mode |-> "NoneAddressing"],
     [opcode |-> \H9A, code |-> "TXS", bytes |-> 1, cycles |-> 2, mode |-> "NoneAddressing"],
     [opcode |-> \HCA, code |-> "DEX", bytes |-> 1, cycles |-> 2, mode |-> "NoneAddressing"]}

OPCODE_TABLE ==
    [opcode \in {op.opcode : op \in OpCodes} |->
        CHOOSE op \in OpCodes : op.opcode = opcode]

\* CPU::get_opperand_address for the modes Immediate and Absolute.
CPU_get_opperand_address_panics(c, m, mode) ==
    mode = "Absolute" /\ Bus_mem_read_u16_panics(m, c.pc)

CPU_get_opperand_address(c, m, mode) ==
    IF mode = "Absolute" THEN Bus_mem_read_u16(m, c.pc)
    ELSE [m |-> m, ret |-> c.pc]

\* The operand of lda, ldx, adc and sbc: `self.mem_read(addr)`.
CPU_operand_panics(c, m, mode) ==
    \/ CPU_get_opperand_address_panics(c, m, mode)
    \/ \E a \in {CPU_get_opperand_address(c, m, mode)} :
          Bus_mem_read_panics(a.m, a.ret)

CPU_operand(c, m, mode) ==
    Then(CPU_get_opperand_address(c, m, mode), LAMBDA a : Bus_mem_read(a.m, a.ret))

CPU_lda(c, m, mode) ==
    Then(CPU_operand(c, m, mode), LAMBDA r :
        [cpu |-> CPU_update_z_and_n_flags([c EXCEPT !.reg_a = r.ret], r.ret),
         m |-> r.m])

CPU_ldx(c, m, mode) ==
    Then(CPU_operand(c, m, mode), LAMBDA r :
        [cpu |-> CPU_update_z_and_n_flags([c EXCEPT !.reg_x = r.ret], r.ret),
         m |-> r.m])

CPU_clc(c) == [c EXCEPT !.status = remove(@, FLAG_C)]

CPU_update_c_bit(c, status) ==
    [c EXCEPT !.status = IF status THEN insert(@, FLAG_C) ELSE remove(@, FLAG_C)]

CPU_update_o_flag(c, status) ==
    [c EXCEPT !.status = IF status THEN insert(@, FLAG_V) ELSE remove(@, FLAG_V)]

\* The sum, C, V, the accumulator, Z and N of add_carry for the 9-bit sum.
CPU_add_carry_sum(c, param, sum) ==
    Then(sum % 256, LAMBDA short_sum :
    Then(CPU_update_c_bit(c, sum > \HFF), LAMBDA c1 :
    Then(CPU_update_o_flag(c1,
             bit_and(bit_and(bit_xor(c.reg_a, short_sum),
                             bit_xor(param, short_sum)), \H80) = \H80), LAMBDA c2 :
        CPU_update_z_and_n_flags([c2 EXCEPT !.reg_a = short_sum], short_sum))))

\* Mutant: the carry flag is not added to the sum.
CPU_add_carry_without_carry_in(c, param) ==
    CPU_add_carry_sum(c, param, c.reg_a + param)

CPU_add_carry(c, param) ==
    CPU_add_carry_sum(c, param,
        c.reg_a + param + (IF contains(c.status, FLAG_C) THEN 1 ELSE 0))

CPU_adc(c, m, mode) ==
    Then(CPU_operand(c, m, mode), LAMBDA r :
        [cpu |-> CPU_add_carry(c, r.ret), m |-> r.m])

\* `let n_param = !param`.
CPU_sbc(c, m, mode) ==
    Then(CPU_operand(c, m, mode), LAMBDA r :
        [cpu |-> CPU_add_carry(c, 255 - r.ret), m |-> r.m])

\* CPU::is_page_cross(addr, offset), offset a u8.
CPU_is_page_cross(addr, offset) ==
    bit_and(addr, \HFF00) # bit_and(u16(addr + offset), \HFF00)

\* CPU::conditional_cycle_check.
CPU_conditional_cycle_check(c, addr, offset) ==
    [c EXCEPT !.extra_cycles = @ + (IF CPU_is_page_cross(addr, offset) THEN 2 ELSE 1)]

\* `offset as u16` of an i8: the sign is extended.
i8_as_u16(b) == IF b >= \H80 THEN b + \HFF00 ELSE b

\* The conditions of bcc, bcs, beq, bmi, bne, bpl, bvc and bvs.
CPU_branch_taken(c, code) ==
    CASE code = "BCC" -> ~contains(c.status, FLAG_C)
      [] code = "BCS" -> contains(c.status, FLAG_C)
      [] code = "BEQ" -> contains(c.status, FLAG_Z)
      [] code = "BNE" -> ~contains(c.status, FLAG_Z)
      [] code = "BMI" -> contains(c.status, FLAG_N)
      [] code = "BPL" -> ~contains(c.status, FLAG_N)
      [] code = "BVC" -> ~contains(c.status, FLAG_V)
      [] code = "BVS" -> contains(c.status, FLAG_V)

Branches == {"BCC", "BCS", "BEQ", "BNE", "BMI", "BPL", "BVC", "BVS"}

CPU_branch_panics(c, m, code) ==
    CPU_branch_taken(c, code) /\ Bus_mem_read_panics(m, c.pc)

\* The body the eight branch handlers share.
CPU_branch(c, m, code) ==
    IF CPU_branch_taken(c, code)
    THEN Then(Bus_mem_read(m, c.pc), LAMBDA r :
         Then(CPU_conditional_cycle_check(c, c.pc, r.ret), LAMBDA c1 :
             [cpu |-> [c1 EXCEPT !.pc = u16(c.pc + i8_as_u16(r.ret))], m |-> r.m]))
    ELSE [cpu |-> c, m |-> m]

\* CPU::jmp: 0x4C has the mode Immediate and jumps to the word at pc; 0x6C
\* has the mode Absolute and jumps through the pointer at pc.
CPU_jmp_panics(c, m, mode) ==
    \/ CPU_get_opperand_address_panics(c, m, mode)
    \/ \E a \in {CPU_get_opperand_address(c, m, mode)} :
          IF mode = "Absolute" /\ a.ret % 256 = \HFF
          THEN \/ Bus_mem_read_panics(a.m, bit_and(a.ret, \HFF00))
               \/ Bus_mem_read_panics(a.m, a.ret)
          ELSE Bus_mem_read_u16_panics(a.m, a.ret)

\* `self.pc = self.mem_read_u16(addr)`.
CPU_jmp_to_word_at(c, m, addr) ==
    Then(Bus_mem_read_u16(m, addr), LAMBDA w :
        [cpu |-> [c EXCEPT !.pc = w.ret], m |-> w.m])

\* Mutant: the high byte is always fetched from the pointer plus one.
CPU_jmp_across_page(c, m, mode) ==
    Then(CPU_get_opperand_address(c, m, mode), LAMBDA a :
        CPU_jmp_to_word_at(c, a.m, a.ret))

CPU_jmp(c, m, mode) ==
    Then(CPU_get_opperand_address(c, m, mode), LAMBDA a :
        IF mode = "Absolute"
        THEN Then(Bus_mem_read_u16(a.m, c.pc), LAMBDA next_addr :
                 IF next_addr.ret % 256 = \HFF
                 THEN Then(Bus_mem_read(next_addr.m, bit_and(next_addr.ret, \HFF00)),
                           LAMBDA hi :
                      Then(Bus_mem_read(hi.m, next_addr.ret), LAMBDA lo :
                          [cpu |-> [c EXCEPT !.pc = hi.ret * 256 + lo.ret],
                           m |-> lo.m]))
                 ELSE CPU_jmp_to_word_at(c, next_addr.m, a.ret))
        ELSE CPU_jmp_to_word_at(c, a.m, a.ret))

CPU_jsr(c, m, mode) ==
    Then(CPU_get_opperand_address(c, m, mode), LAMBDA a :
    Then(CPU_stack_push_u16(c, a.m, u16(c.pc + 1)), LAMBDA p :
        [cpu |-> [p.cpu EXCEPT !.pc = a.ret], m |-> p.m]))

CPU_rts(c, m) ==
    Then(CPU_stack_pop(c), LAMBDA c1 :
    Then(CPU_stack_read_u16(c1, m), LAMBDA w :
        [cpu |-> CPU_stack_pop([c1 EXCEPT !.pc = u16(w.ret + 1)]), m |-> w.m]))

(***************************************************************************)
(* One iteration of the loop of CPU::run_with_callback, with the callback  *)
(* of CPU::run, which does nothing.                                        *)
(***************************************************************************)
\* `if nmi_stat { self.interrupt_nmi() }`.
CPU_poll_nmi(c, m) ==
    IF Bus_poll_nmi_status(m) THEN CPU_interrupt_nmi_regs(c, m)
    ELSE [cpu |-> c, m |-> m]

\* The match on op_object.code; should_inc is what jmp, jsr, rts and rti
\* return and TRUE for every other instruction.
CPU_dispatch_panics(c, m, op) ==
    CASE op.code \in {"LDA", "LDX", "ADC", "SBC"} -> CPU_operand_panics(c, m, op.mode)
      [] op.code \in Branches -> CPU_branch_panics(c, m, op.code)
      [] op.code = "JMP" -> CPU_jmp_panics(c, m, op.mode)
      [] op.code = "JSR" -> CPU_get_opperand_address_panics(c, m, op.mode)
      [] OTHER -> FALSE

CPU_dispatch(c, m, op) ==
    CASE op.code = "LDA" -> CPU_lda(c, m, op.mode)
      [] op.code = "LDX" -> CPU_ldx(c, m, op.mode)
      [] op.code = "ADC" -> CPU_adc(c, m, op.mode)
      [] op.code = "SBC" -> CPU_sbc(c, m, op.mode)
      [] op.code = "CLC" -> [cpu |-> CPU_clc(c), m |-> m]
      [] op.code = "SEC" -> [cpu |-> CPU_sec(c), m |-> m]
      [] op.code = "TXS" -> [cpu |-> CPU_txs(c), m |-> m]
      [] op.code = "DEX" -> [cpu |-> CPU_dex(c), m |-> m]
      [] op.code = "NOP" -> [cpu |-> c, m |-> m]
      [] op.code \in Branches -> CPU_branch(c, m, op.code)
      [] op.code = "JMP" -> CPU_jmp(c, m, op.mode)
      [] op.code = "JSR" -> CPU_jsr(c, m, op.mode)
      [] op.code = "RTS" -> CPU_rts(c, m)

\* The opcode the iteration fetches, after the NMI poll.
CPU_fetch(c, m) ==
    Then(CPU_poll_nmi(c, m), LAMBDA n : Bus_mem_read(n.m, n.cpu.pc).ret)

\* The iteration aborts when the vector read of the NMI entry, the fetch or
\* a read of the handler does.
CPU_run_iteration_panics(c, m) ==
    \/ Bus_poll_nmi_status(m) /\ CPU_interrupt_nmi_regs_panics(c, m)
    \/ \E n \in {CPU_poll_nmi(c, m)} :
          \/ Bus_mem_read_panics(n.m, n.cpu.pc)
          \/ \E f \in {Bus_mem_read(n.m, n.cpu.pc)} :
             \E op \in {OPCODE_TABLE[f.ret]} :
                /\ op.code # "BRK"
                /\ CPU_dispatch_panics([n.cpu EXCEPT !.pc = u16(@ + 1)], f.m, op)

\* The iteration for an opcode of OPCODE_TABLE above: `returned` tells that
\* the loop has returned to its caller (BRK).
CPU_run_iteration(c, m) ==
    Then(CPU_poll_nmi(c, m), LAMBDA n :
    Then(Bus_mem_read(n.m, n.cpu.pc), LAMBDA f :
    Then(OPCODE_TABLE[f.ret], LAMBDA op :
    Then([n.cpu EXCEPT !.pc = u16(@ + 1)], LAMBDA c1 :
        IF op.code = "BRK"
        THEN [cpu |-> c1, m |-> f.m, returned |-> TRUE]
        ELSE Then(CPU_dispatch(c1, f.m, op), LAMBDA d :
             Then(Bus_tick(d.m, op.cycles + d.cpu.extra_cycles), LAMBDA t :
                 [cpu |-> [d.cpu EXCEPT
                             !.extra_cycles = 0,
                             !.pc = IF op.code \notin {"JMP", "JSR", "RTS"}
                                    THEN u16(@ + (op.bytes - 1)) ELSE @],
                  m |-> t.m, returned |-> FALSE]))))))

(***************************************************************************)
(* SpecPpu: the picture processor's clock and its control and status       *)
(* registers.  NesPPU::tick is called with any number of dots; 0x2000 is   *)
(* written and 0x2002 is read through the bus.                             *)
(* obs: op, arg - the last operation and its argument; ret - the byte it   *)
(* returned; new_frame - the bool a tick returned; nmi_before - the        *)
(* NMI-pending flag as the operation found it.                             *)
(***************************************************************************)
InitPpu ==
    /\ cpu = CPU_new
    /\ ppu = NesPPU_new
    /\ bus = Bus_new
    /\ obs = [op |-> "new", arg |-> 0, ret |-> 0, new_frame |-> FALSE,
              nmi_before |-> FALSE]

PpuTick(n) ==
    /\ UNCHANGED cpu
    /\ ppu.cycles + n <= MaxDots
    /\ LET t == NesPPU_tick(ppu, n)
       IN  /\ ppu' = t.ppu
           /\ obs' = [op |-> "tick", arg |-> n, ret |-> 0, new_frame |-> t.ret,
                      nmi_before |-> ppu.trigger_nmi]
    /\ UNCHANGED bus

WriteCtrl(data) ==
    /\ UNCHANGED cpu
    /\ LET m == Bus_mem_write([ppu |-> ppu, bus |-> bus], PPUCTRL, data)
       IN  /\ ppu' = m.ppu
           /\ bus' = m.bus
    /\ obs' = [op |-> "write_to_ctrl", arg |-> data, ret |-> 0,
               new_frame |-> FALSE, nmi_before |-> ppu.trigger_nmi]

ReadStatus ==
    /\ UNCHANGED cpu
    /\ LET r == Bus_mem_read([ppu |-> ppu, bus |-> bus], PPUSTATUS)
       IN  /\ ppu' = r.m.ppu
           /\ bus' = r.m.bus
           /\ obs' = [op |-> "read_status", arg |-> 0, ret |-> r.ret,
                      new_frame |-> FALSE, nmi_before |-> ppu.trigger_nmi]

NextPpu ==
    \/ \E n \in TickInputs : PpuTick(n)
    \/ \E data \in CtrlInputs : WriteCtrl(data)
    \/ ReadStatus

SpecPpu == InitPpu /\ [][NextPpu]_vars

\* C4: a tick of any number of dots leaves the dot counter in 0..340 and
\* the scanline counter in 0..261.
C4_DotAndScanlineInRange ==
    /\ ppu.cycles \in 0 .. (DotsPerScanline - 1)
    /\ ppu.scanline \in 0 .. (ScanlinesPerFrame - 1)

\* C5: the step on which the scanline counter becomes 241 sets the
\* vertical-blank bit, clears sprite-zero-hit and leaves NMI-pending equal to
\* the generate-NMI bit; the step on which it wraps from 261 to 0 clears
\* vertical-blank, sprite-overflow and sprite-zero-hit, lowers NMI-pending
\* and is a tick that returns true.
C5_VblankAndWrapTransitions ==
    [][ /\ (ppu.scanline # VblankScanline /\ ppu'.scanline = VblankScanline)
           => /\ ppu'.status >= 128
              /\ (ppu'.status \div 64) % 2 = 0
              /\ ppu'.trigger_nmi = (ppu.ctrl >= 128)
              /\ ~obs'.new_frame
        /\ (ppu.scanline = ScanlinesPerFrame - 1 /\ ppu'.scanline = 0)
           => /\ ppu'.status < 128
              /\ (ppu'.status \div 32) % 2 = 0
              /\ (ppu'.status \div 64) % 2 = 0
              /\ ~ppu'.trigger_nmi
              /\ obs'.op = "tick" /\ obs'.new_frame
        /\ (obs'.op = "tick" /\ obs'.new_frame)
           => (ppu.scanline = ScanlinesPerFrame - 1 /\ ppu'.scanline = 0)
      ]_vars

\* Both transitions have happened: a tick has just wrapped the scanline
\* counter to 0 and lowered an NMI-pending flag that was raised in the frame
\* it ended, with generate-NMI still set.
C5_Witness ==
    /\ obs.op = "tick" /\ obs.new_frame /\ ppu.scanline = 0
    /\ obs.nmi_before /\ ~ppu.trigger_nmi /\ ppu.ctrl >= 128

\* C6: a write to the control register raises NMI-pending exactly when the
\* generate-NMI bit goes from 0 to 1 while the vertical-blank bit is set, and
\* otherwise leaves NMI-pending as it was.
C6_CtrlWriteRaisesNmi ==
    [][ obs'.op = "write_to_ctrl"
        => /\ ppu'.ctrl = obs'.arg
           /\ ppu'.trigger_nmi =
                 (ppu.trigger_nmi
                  \/ (ppu.ctrl < 128 /\ obs'.arg >= 128 /\ ppu.status >= 128))
           /\ ppu'.status = ppu.status
      ]_vars

\* A control write during vertical blank has just raised NMI-pending.
C6_Witness ==
    /\ obs.op = "write_to_ctrl" /\ obs.arg >= 128
    /\ ~obs.nmi_before /\ ppu.trigger_nmi
    /\ ppu.scanline >= VblankScanline

\* C7: a read of 0x2002 returns the status byte as it was before the read
\* (bit 7 included) and leaves bit 7 clear and bits 0..6 as they were.
C7_StatusReadReturnsOldClearsVblank ==
    [][ obs'.op = "read_status"
        => /\ obs'.ret = ppu.status
           /\ ppu'.status < 128
           /\ ppu'.status % 128 = ppu.status % 128
      ]_vars

\* A status read has just returned a byte with bit 7 set and cleared it.
C7_Witness ==
    obs.op = "read_status" /\ obs.ret >= 128 /\ ppu.status < 128

(***************************************************************************)
(* SpecLatch: the scroll port 0x2005, the VRAM address port 0x2006 and the *)
(* status port 0x2002, accessed through the bus in any order.              *)
(* obs: op, arg - the last access and the byte written; prev_op, prev_arg  *)
(* - the access before it; hi_ptr, prev_hi_ptr - AddrRegister.hi_ptr as   *)
(* the last / the earlier access found it; read_seen - 0x2002 has been read; w5, w6 - the *)
(* writes to 0x2005 / 0x2006 since that read, counted up to CountCap;      *)
(* mid5, mid6 - the last read found the port's latch in its second-write   *)
(* state.                                                                  *)
(***************************************************************************)
InitLatch ==
    /\ cpu = CPU_new
    /\ ppu = NesPPU_new
    /\ bus = Bus_new
    /\ obs = [op |-> "new", arg |-> 0, prev_op |-> "new", prev_arg |-> 0,
              prev_hi_ptr |-> TRUE, hi_ptr |-> TRUE, read_seen |-> FALSE,
              w5 |-> 0, w6 |-> 0, mid5 |-> FALSE, mid6 |-> FALSE]

CountUp(n) == IF n < CountCap THEN n + 1 ELSE n

\* The access just made becomes the last one, the last one the previous.
Shift(o, op, arg) ==
    [o EXCEPT !.op = op, !.arg = arg, !.prev_op = o.op, !.prev_arg = o.arg,
              !.prev_hi_ptr = o.hi_ptr, !.hi_ptr = ppu.addr.hi_ptr]

LatchReadStatus ==
    /\ UNCHANGED cpu
    /\ LET r == Bus_mem_read([ppu |-> ppu, bus |-> bus], PPUSTATUS)
       IN  /\ ppu' = r.m.ppu
           /\ bus' = r.m.bus
           /\ obs' = [Shift(obs, "read_status", 0) EXCEPT
                         !.read_seen = TRUE, !.w5 = 0, !.w6 = 0,
                         !.mid5 = ~ppu.scroll.latch, !.mid6 = ~ppu.addr.hi_ptr]

WriteScroll(data) ==
    /\ UNCHANGED cpu
    /\ LET m == Bus_mem_write([ppu |-> ppu, bus |-> bus], PPUSCROLL, data)
       IN  /\ ppu' = m.ppu
           /\ bus' = m.bus
    /\ obs' = [Shift(obs, "write_scroll", data) EXCEPT !.w5 = CountUp(@)]

WritePpuAddr(data) ==
    /\ UNCHANGED cpu
    /\ LET m == Bus_mem_write([ppu |-> ppu, bus |-> bus], PPUADDR, data)
       IN  /\ ppu' = m.ppu
           /\ bus' = m.bus
    /\ obs' = [Shift(obs, "write_to_ppu_addr", data) EXCEPT !.w6 = CountUp(@)]

NextLatch ==
    \/ LatchReadStatus
    \/ \E data \in Bytes : WriteScroll(data)
    \/ \E data \in Bytes : WritePpuAddr(data)

SpecLatch == InitLatch /\ [][NextLatch]_vars

\* C8: the first write to 0x2005 after a read of 0x2002 sets scroll x and
\* leaves scroll y; the first write to 0x2006 after a read of 0x2002 sets the
\* high byte of the VRAM address (its low six bits) and leaves the low byte.
C8_StatusReadRestartsPairs ==
    [][ /\ (obs'.read_seen /\ obs'.op = "write_scroll" /\ obs'.w5 = 1)
           => /\ ppu'.scroll.x_val = obs'.arg
              /\ ppu'.scroll.y_val = ppu.scroll.y_val
        /\ (obs'.read_seen /\ obs'.op = "write_to_ppu_addr" /\ obs'.w6 = 1)
           => /\ ppu'.addr.hi = obs'.arg % 64
              /\ ppu'.addr.lo = ppu.addr.lo
      ]_vars

\* A status read found both latches in their second-write state; since then
\* 0x2006 was written once and 0x2005 has just been written once, and the
\* byte went to scroll x.
C8_Witness ==
    /\ obs.read_seen /\ obs.mid5 /\ obs.mid6
    /\ obs.op = "write_scroll" /\ obs.w5 = 1 /\ obs.w6 = 1
    /\ ppu.scroll.x_val = obs.arg /\ ppu.scroll.y_val # obs.arg

\* C9: one latch is shared: after a status read, a single write to 0x2005
\* followed by a single write to 0x2006 makes the 0x2006 write the second of
\* the pair (its byte is the low address byte), and a single write to 0x2006
\* followed by a single write to 0x2005 makes the 0x2005 write set scroll y.
C9_SharedLatch ==
    /\ ( /\ obs.read_seen /\ obs.w5 = 1 /\ obs.w6 = 1
         /\ obs.prev_op = "write_scroll" /\ obs.op = "write_to_ppu_addr" )
       => ppu.addr.lo = obs.arg
    /\ ( /\ obs.read_seen /\ obs.w5 = 1 /\ obs.w6 = 1
         /\ obs.prev_op = "write_to_ppu_addr" /\ obs.op = "write_scroll" )
       => ppu.scroll.y_val = obs.arg

\* C10 as stated: after any two consecutive writes to 0x2006 the VRAM
\* address is ((first & 0x3F) << 8) | second, whatever the latch state.
C10_AnyTwoAddrWrites ==
    (obs.prev_op = "write_to_ppu_addr" /\ obs.op = "write_to_ppu_addr")
    => AddrRegister_get(ppu.addr) = (obs.prev_arg % 64) * 256 + obs.arg

\* C10 amended: after two consecutive writes to 0x2006 the VRAM address is
\* ((first & 0x3F) << 8) | second when the first of them found the latch in
\* its first-write state, and ((second & 0x3F) << 8) | first when it found
\* the latch in its second-write state.
C10_TwoAddrWritesFromLatch ==
    (obs.prev_op = "write_to_ppu_addr" /\ obs.op = "write_to_ppu_addr")
    => AddrRegister_get(ppu.addr) =
          IF obs.prev_hi_ptr
          THEN (obs.prev_arg % 64) * 256 + obs.arg
          ELSE (obs.arg % 64) * 256 + obs.prev_arg

\* Two consecutive 0x2006 writes starting a pair, the first byte above 0x3F.
C10_Witness ==
    /\ obs.prev_op = "write_to_ppu_addr" /\ obs.op = "write_to_ppu_addr"
    /\ obs.prev_hi_ptr /\ obs.prev_arg > 63 /\ obs.arg # obs.prev_arg
    /\ AddrRegister_get(ppu.addr) = (obs.prev_arg % 64) * 256 + obs.arg

(***************************************************************************)
(* SpecVram: the VRAM address port 0x2006, the data port 0x2007 and the    *)
(* increment bit of the control register, accessed through the bus in any  *)
(* order, on a cartridge with horizontal mirroring.  An access that aborts *)
(* the program leaves the state as it found it and ends the behaviour.     *)
(* obs: op, ret - the last access and the byte it returned; panic - the    *)
(* access aborted the program; accesses, writes - data-port accesses and   *)
(* data-port writes so far; log - the data-port writes so far, each with   *)
(* the VRAM address it found and the byte written.                         *)
(***************************************************************************)
InitVram ==
    /\ cpu = CPU_new
    /\ ppu = NesPPU_new_rom(ChrRom, "HORIZONTAL")
    /\ bus = Bus_new
    /\ obs = [op |-> "new", ret |-> 0, panic |-> FALSE,
              accesses |-> 0, writes |-> 0, log |-> <<>>]

\* A bus write of `data` to `addr`, recorded as `op`.
VramWrite(op, addr, data) ==
    LET m == [ppu |-> ppu, bus |-> bus]
        o == [obs EXCEPT !.op = op, !.ret = 0]
    IN  IF Bus_mem_write_panics(m, addr, data)
        THEN /\ UNCHANGED <<ppu, bus>>
             /\ obs' = [o EXCEPT !.panic = TRUE]
        ELSE \E m1 \in {Bus_mem_write(m, addr, data)} :
                /\ ppu' = m1.ppu
                /\ bus' = m1.bus
                /\ obs' = [o EXCEPT
                              !.accesses = IF addr = PPUDATA THEN @ + 1 ELSE @,
                              !.writes = IF addr = PPUDATA THEN @ + 1 ELSE @,
                              !.log = IF addr = PPUDATA
                                      THEN Append(@, [addr |-> AddrRegister_get(ppu.addr),
                                                      data |-> data])
                                      ELSE @]

\* A bus read of `addr`, recorded as `op`.
VramRead(op, addr) ==
    LET m == [ppu |-> ppu, bus |-> bus]
        o == [obs EXCEPT !.op = op, !.ret = 0]
    IN  IF Bus_mem_read_panics(m, addr)
        THEN /\ UNCHANGED <<ppu, bus>>
             /\ obs' = [o EXCEPT !.panic = TRUE]
        ELSE \E r \in {Bus_mem_read(m, addr)} :
                /\ ppu' = r.m.ppu
                /\ bus' = r.m.bus
                /\ obs' = [o EXCEPT !.ret = r.ret,
                                    !.accesses = IF addr = PPUDATA THEN @ + 1 ELSE @]

VramWriteAddr(data) ==
    /\ UNCHANGED cpu
    /\ ~obs.panic
    /\ VramWrite("write_to_ppu_addr", PPUADDR, data)

VramWriteCtrl(data) ==
    /\ UNCHANGED cpu
    /\ ~obs.panic
    /\ VramWrite("write_to_ctrl", PPUCTRL, data)

VramWriteData(data) ==
    /\ UNCHANGED cpu
    /\ ~obs.panic
    /\ obs.accesses < MaxDataAccesses
    /\ obs.writes < MaxDataWrites
    /\ VramWrite("write_to_data", PPUDATA, data)

VramReadData ==
    /\ UNCHANGED cpu
    /\ ~obs.panic
    /\ obs.accesses < MaxDataAccesses
    /\ VramRead("read_data", PPUDATA)

NextVram ==
    \/ \E data \in VramBytes : VramWriteAddr(data)
    \/ \E data \in IncrementInputs : VramWriteCtrl(data)
    \/ \E data \in DataBytes : VramWriteData(data)
    \/ VramReadData

SpecVram == InitVram /\ [][NextVram]_vars

\* C11: the VRAM address is at most 0x3FFF in every reachable state.
C11_VramAddrWithin14Bits == AddrRegister_get(ppu.addr) <= \H3FFF

\* A data-port access with increment 1 has just carried into the high byte
\* of 0x23FF, an address whose high byte was written as 0x63.
C11_Witness ==
    /\ obs.op \in {"read_data", "write_to_data"} /\ ~obs.panic
    /\ ~contains(ppu.ctrl, VRAM_ADD_INCREMENT)
    /\ AddrRegister_get(ppu.addr) = \H2400

\* The byte of VRAM at an address below the palette window: character
\* memory below 0x2000, nametable memory (0x3000..0x3EFF mirroring
\* 0x2000..0x2EFF) above.
VramByte(p, addr) ==
    IF addr < \H2000 THEN load(p.chr_rom.bytes, addr)
    ELSE load(p.vram, NesPPU_mirror_vram_addr(p, addr))

\* C12: a read of 0x2007 at an address below 0x3F00 returns the buffered
\* byte and refills the buffer with the byte at the address; a read inside
\* the palette window returns the palette byte; either way the address
\* then advances by 1 or 32 as control bit 2 says.
C12_BufferedDataRead ==
    [][ obs'.op = "read_data"
        => LET a == AddrRegister_get(ppu.addr)
           IN  /\ ~obs'.panic
               /\ a < \H3F00
                  => /\ obs'.ret = ppu.internal_data_buf
                     /\ ppu'.internal_data_buf = VramByte(ppu, a)
               /\ a >= \H3F00
                  => obs'.ret = load(ppu.palette_table, (a - \H3F00) % 32)
               /\ AddrRegister_get(ppu'.addr) =
                     (a + (IF (ppu.ctrl \div 4) % 2 = 1 THEN 32 ELSE 1)) % \H4000
      ]_vars

(***************************************************************************)
(* SpecPalette: SpecVram's accesses with the address bytes of the palette  *)
(* window: 0x3F and the entries 0x00, 0x04, 0x08, 0x0C, 0x10, 0x14, 0x18,  *)
(* 0x1C.                                                                   *)
(***************************************************************************)
PaletteBytes == {\H3F, \H00, \H04, \H08, \H0C, \H10, \H14, \H18, \H1C}

NextPalette ==
    \/ \E data \in PaletteBytes : VramWriteAddr(data)
    \/ \E data \in DataBytes : VramWriteData(data)
    \/ VramReadData

SpecPalette == InitVram /\ [][NextPalette]_vars

\* The byte last written, by the log, to an address that `same` relates to
\* addr; 0 (the memory's initial byte) if there is none.
LastWritten(log, addr, same(_, _)) ==
    LET hits == {i \in 1 .. Len(log) : same(log[i].addr, addr)}
    IN  IF hits = {} THEN 0
        ELSE log[CHOOSE i \in hits : \A j \in hits : j <= i].data

InPalette(addr) == addr >= \H3F00 /\ addr <= \H3F1F

\* The palette entry an address of the palette window stands for: entries
\* 0x10, 0x14, 0x18, 0x1C stand for 0x00, 0x04, 0x08, 0x0C.
PaletteEntry(addr) ==
    LET e == addr - \H3F00
    IN  IF e >= 16 /\ e % 4 = 0 THEN e - 16 ELSE e

SamePaletteEntry(a, b) ==
    InPalette(a) /\ InPalette(b) /\ PaletteEntry(a) = PaletteEntry(b)

\* C13: palette entries 0x10, 0x14, 0x18, 0x1C alias 0x00, 0x04, 0x08, 0x0C:
\* a read of 0x2007 at a palette address returns the byte last written
\* through 0x2007 to that entry or to its alias.
C13_PaletteAliases ==
    [][ (obs'.op = "read_data" /\ ~obs'.panic /\ InPalette(AddrRegister_get(ppu.addr)))
        => obs'.ret = LastWritten(obs.log, AddrRegister_get(ppu.addr), SamePaletteEntry)
      ]_vars

(***************************************************************************)
(* SpecNametable: the address and data ports on a cartridge with           *)
(* horizontal or vertical mirroring, with the address bytes of the first   *)
(* 256 bytes of each of the four logical nametables.                       *)
(***************************************************************************)
NametableBytes == {\H20, \H24, \H28, \H2C, \HFF}

Mirrorings == {"HORIZONTAL", "VERTICAL"}

InitNametable ==
    /\ cpu = CPU_new
    /\ \E mirroring \in Mirrorings : ppu = NesPPU_new_rom(ChrRom, mirroring)
    /\ bus = Bus_new
    /\ obs = [op |-> "new", ret |-> 0, panic |-> FALSE,
              accesses |-> 0, writes |-> 0, log |-> <<>>]

NextNametable ==
    \/ \E data \in NametableBytes : VramWriteAddr(data)
    \/ \E data \in DataBytes : VramWriteData(data)
    \/ VramReadData

SpecNametable == InitNametable /\ [][NextNametable]_vars

InNametables(addr) == addr >= \H2000 /\ addr <= \H2FFF

\* The logical nametable (0..3) of an address and its offset k in it.
NametableOf(addr) == (addr - \H2000) \div \H400

OffsetOf(addr) == (addr - \H2000) % \H400

\* The pair a logical nametable belongs to: {0, 1} and {2, 3} under
\* horizontal mirroring, {0, 2} and {1, 3} under vertical mirroring.
PairOf(mirroring, table) ==
    IF mirroring = "HORIZONTAL" THEN table \div 2 ELSE table % 2

SameNametableCell(a, b) ==
    /\ InNametables(a) /\ InNametables(b)
    /\ OffsetOf(a) = OffsetOf(b)
    /\ PairOf(ppu.mirroring, NametableOf(a)) = PairOf(ppu.mirroring, NametableOf(b))

\* C14: for every k in 0..0x3FF the addresses 0x2000+k and 0x2400+k (and
\* 0x2800+k and 0x2C00+k) name one cell of nametable memory under horizontal
\* mirroring, 0x2000+k and 0x2800+k (and 0x2400+k and 0x2C00+k) under
\* vertical mirroring, and the two pairs name different cells; and a read of
\* 0x2007 at a nametable address returns the buffered byte and fills the
\* buffer with the byte last written at the same offset of a nametable of
\* the same pair (0 if none was).
C14_NametableMirroring ==
    /\ [](obs.op = "new"
          => \A k \in 0 .. \H3FF : \A s, t \in 0 .. 3 :
                (NesPPU_mirror_vram_addr(ppu, \H2000 + s * \H400 + k)
                   = NesPPU_mirror_vram_addr(ppu, \H2000 + t * \H400 + k))
                <=> (PairOf(ppu.mirroring, s) = PairOf(ppu.mirroring, t)))
    /\ [][ (obs'.op = "read_data" /\ ~obs'.panic
            /\ InNametables(AddrRegister_get(ppu.addr)))
           => /\ obs'.ret = ppu.internal_data_buf
              /\ ppu'.internal_data_buf =
                    LastWritten(obs.log, AddrRegister_get(ppu.addr), SameNametableCell)
         ]_vars

\* Under vertical mirroring a byte written at 0x2C20 has just been loaded
\* into the read buffer by a read at 0x2420.
C14_Witness ==
    /\ ppu.mirroring = "VERTICAL"
    /\ obs.op = "read_data" /\ ~obs.panic
    /\ Len(obs.log) = 1 /\ obs.log[1].addr = \H2C20
    /\ AddrRegister_get(ppu.addr) = \H2421
    /\ ppu.internal_data_buf = obs.log[1].data /\ ppu.internal_data_buf # 0

(***************************************************************************)
(* SpecTiming: the processor's execution loop driving the bus clock.  One  *)
(* step is one iteration of the loop of CPU::run_with_callback: poll the   *)
(* NMI line and enter the handler if it is high, execute one instruction,  *)
(* advance the bus by the instruction's cycles.  The instructions are      *)
(* drawn from TimingOps; the processor's registers and memory have no      *)
(* effect on the clock and are not part of this specification.             *)
(* obs: cost - base + extra cycles of the instruction just executed;       *)
(* nmi_taken - the iteration entered the NMI handler; nmis, callbacks -    *)
(* NMI handler entries and frame-ready callback invocations since the      *)
(* scanline counter last wrapped to 0, counted up to CountCap.             *)
(***************************************************************************)
\* Entries of OPCODE_TABLE with the extra cycles the instruction can incur
\* (page crossing, branch taken) and the addresses it is given here.
TimingOps ==
    { [code |-> "BCC", opcode |-> \H90, cycles |-> 2, extras |-> {0, 1, 2},
       targets |-> {\H0000}],
      [code |-> "LDA", opcode |-> \HAD, cycles |-> 4, extras |-> {0},
       targets |-> {PPUSTATUS}],
      [code |-> "LDA", opcode |-> \HBD, cycles |-> 4, extras |-> {0, 1},
       targets |-> {\H0000}],
      [code |-> "STA", opcode |-> \H8D, cycles |-> 4, extras |-> {0},
       targets |-> {PPUCTRL}] }

InitTiming ==
    /\ cpu = CPU_new
    /\ ppu = NesPPU_new
    /\ bus = Bus_new
    /\ obs = [cost |-> 0, nmi_taken |-> FALSE, nmis |-> 0, callbacks |-> 0]

\* What a bus tick adds to the per-frame counts.
ObserveTick(o, t) ==
    IF t.new_frame
    THEN [o EXCEPT !.nmis = 0, !.callbacks = 0]
    ELSE [o EXCEPT !.callbacks = IF t.callback THEN CountUp(@) ELSE @]

\* CPU::interrupt_nmi: the bus advances by the handler entry's two cycles.
CPU_interrupt_nmi(s) ==
    LET t == Bus_tick(s.m, NmiCycles)
    IN  [m |-> t.m,
         obs |-> ObserveTick([s.obs EXCEPT !.nmis = CountUp(@),
                                           !.nmi_taken = TRUE], t)]

\* `let nmi_stat = self.bus.poll_nmi_status(); if nmi_stat { interrupt_nmi }`
CPU_poll_and_interrupt(s) ==
    IF Bus_poll_nmi_status(s.m) THEN CPU_interrupt_nmi(s) ELSE s

\* The instruction's own bus access (lda / sta on the operand address).
CPU_execute(m, op, addr, data) ==
    CASE op.code = "LDA" -> Bus_mem_read(m, addr).m
      [] op.code = "STA" -> Bus_mem_write(m, addr, data)
      [] OTHER           -> m

\* One iteration of the loop of CPU::run_with_callback.
CPU_iteration(s, op, extra, addr, data) ==
    LET s1 == CPU_poll_and_interrupt([s EXCEPT !.obs.nmi_taken = FALSE])
        m2 == CPU_execute(s1.m, op, addr, data)
        t  == Bus_tick(m2, op.cycles + extra)
    IN  [m |-> t.m,
         obs |-> ObserveTick([s1.obs EXCEPT !.cost = op.cycles + extra], t)]

Step(op, extra, addr, data) ==
    /\ UNCHANGED cpu
    /\ \E s \in {CPU_iteration([m |-> [ppu |-> ppu, bus |-> bus], obs |-> obs],
                              op, extra, addr, data)} :
           /\ s.m.bus.cycles <= MaxBusCycles
           /\ ppu' = s.m.ppu
           /\ bus' = s.m.bus
           /\ obs' = s.obs

\* The byte stored matters only to a store.
StoreInputs(op) == IF op.code = "STA" THEN CtrlInputs ELSE {0}

NextTiming ==
    \E op \in TimingOps : \E extra \in op.extras : \E addr \in op.targets :
        \E data \in StoreInputs(op) : Step(op, extra, addr, data)

SpecTiming == InitTiming /\ [][NextTiming]_vars

FrameDots == DotsPerScanline * ScanlinesPerFrame

\* The picture processor's position in the frame, in dots.
PpuDots(p) == p.scanline * DotsPerScanline + p.cycles

\* C1: the picture processor's position, counted at 341 dots a scanline
\* and 262 scanlines a frame, is three times the bus cycle counter; and every
\* iteration of the execution loop moves it by three dots for each cycle of
\* the instruction (base + extra), after the two cycles of an NMI entry if
\* the iteration made one.
C1_ThreeDotsPerCycle ==
    /\ [](/\ ppu.cycles < DotsPerScanline
          /\ ppu.scanline < ScanlinesPerFrame
          /\ PpuDots(ppu) = (3 * bus.cycles) % FrameDots)
    /\ [][ LET n == obs'.cost + (IF obs'.nmi_taken THEN 2 ELSE 0)
           IN  /\ bus'.cycles = bus.cycles + n
               /\ PpuDots(ppu') = (PpuDots(ppu) + 3 * n) % FrameDots
         ]_vars

\* An instruction with an extra cycle has just been executed in the second
\* frame: the dot position has wrapped past 341 * 262.
C1_Witness ==
    /\ 3 * bus.cycles > FrameDots
    /\ obs.cost = 5
    /\ PpuDots(ppu) = 3 * bus.cycles - FrameDots

\* C2: with generate-NMI enabled the execution loop enters the NMI handler
\* once per frame: no second entry follows before the scanline counter has
\* wrapped.
C2_OneNmiPerFrame == obs.nmis <= 1

\* C3: the frame-ready callback is invoked on exactly the steps on which the
\* scanline counter reaches 241, whatever the generate-NMI bit.
C3_CallbackAtEveryVblank ==
    [][ (obs'.callbacks = obs.callbacks + 1)
        <=> (ppu.scanline # VblankScanline /\ ppu'.scanline = VblankScanline)
      ]_vars

(***************************************************************************)
(* SpecDma: the execution loop running STA instructions that store to      *)
(* internal RAM (page 0x02), to the OAM address port 0x2003 and to the     *)
(* sprite-DMA port 0x4014.  One step is one iteration of the loop, as in   *)
(* SpecTiming; a store that aborts the program leaves the state as it      *)
(* found it and ends the behaviour.                                        *)
(* obs: SpecTiming's fields, and op, arg - the port stored to and the byte *)
(* stored; panic - the store aborted the program; stores - the stores so   *)
(* far.                                                                    *)
(***************************************************************************)
\* Addresses of internal RAM stored to: the first and the last
\* byte of page 0x02.
RamTargets == {\H0200, \H02FF}
\* Bytes stored to RAM.
RamBytes == {\H63, \H05}
\* Bytes stored to the OAM address port.
OamAddrInputs == {\H10}
\* Bytes stored to 0x4014: a page of internal RAM, the page of the picture
\* processor's registers, a page of their mirrors, the page of 0x4014.
DmaPages == {\H02, \H20, \H21, \H40}

\* STA absolute, the entry 0x8D of OPCODE_TABLE.
StaAbsolute == CHOOSE op \in TimingOps : op.opcode = \H8D

InitDma ==
    /\ cpu = CPU_new
    /\ ppu = NesPPU_new_rom(ChrRom, "HORIZONTAL")
    /\ bus = Bus_new
    /\ obs = [cost |-> 0, nmi_taken |-> FALSE, nmis |-> 0, callbacks |-> 0,
              op |-> "new", arg |-> 0, panic |-> FALSE, stores |-> 0]

Store(op, addr, data) ==
    /\ UNCHANGED cpu
    /\ ~obs.panic
    /\ obs.stores < MaxStores
    /\ LET m == [ppu |-> ppu, bus |-> bus]
           o == [obs EXCEPT !.op = op, !.arg = data]
       IN  IF Bus_mem_write_panics(m, addr, data)
           THEN /\ UNCHANGED <<ppu, bus>>
                /\ obs' = [o EXCEPT !.panic = TRUE]
           ELSE \E s \in {CPU_iteration([m |-> m, obs |-> o], StaAbsolute, 0,
                                        addr, data)} :
                   /\ ppu' = s.m.ppu
                   /\ bus' = s.m.bus
                   /\ obs' = [s.obs EXCEPT !.stores = @ + 1]

StoreRam(addr, data) == Store("ram", addr, data)

StoreOamAddr(data) == Store("oam_addr", OAMADDR, data)

StoreDma(data) == Store("dma", OAMDMA, data)

NextDma ==
    \/ \E addr \in RamTargets : \E data \in RamBytes : StoreRam(addr, data)
    \/ \E data \in OamAddrInputs : StoreOamAddr(data)
    \/ \E data \in DmaPages : StoreDma(data)

SpecDma == InitDma /\ [][NextDma]_vars

\* The transfer a store of page B to 0x4014 has made from the state before
\* it: OAM[(a + i) mod 256] holds the byte a bus read of B*0x100 + i
\* returned, for the OAM address a before the transfer and every i in
\* 0..255, and the OAM address is a again.
DmaCopied ==
    LET m == [ppu |-> ppu, bus |-> bus]
    IN  /\ \A i \in 0 .. 255 :
              load(ppu'.oam_data, (ppu.oam_addr + i) % 256)
                 = Bus_mem_read(m, obs'.arg * 256 + i).ret
        /\ ppu'.oam_addr = ppu.oam_addr

C16_DmaAdvancesTime ==
    [][ (obs'.op = "dma" /\ ~obs'.panic)
        => /\ bus'.cycles > bus.cycles + obs'.cost
           /\ PpuDots(ppu') > PpuDots(ppu) + 3 * obs'.cost ]_vars

(***************************************************************************)
(* SpecBus: reads, peeks and writes of the bus at addresses of internal    *)
(* RAM, the picture processor's ports, their mirrors and the controller    *)
(* port.  The bus is first ticked, a scanline's dots at a time, up to      *)
(* vertical blank; the accesses are made at construction or in vertical    *)
(* blank.  An access that aborts the program leaves the state as it found  *)
(* it and ends the behaviour.                                              *)
(* obs: op, addr, arg, ret - the last access, its address, the byte        *)
(* written and the byte returned; panic - the access aborted the program;  *)
(* ticks, accesses - bus ticks and accesses so far.                        *)
(***************************************************************************)
BusAddrs == {\H0002, PPUCTRL, PPUSTATUS, OAMADDR, OAMDATA, PPUADDR, PPUDATA,
             \H2008, \H200A, \H200B, \H3FFC, JOYPAD1}
BusBytes == {\H63, \H20}

InitBus ==
    /\ cpu = CPU_new
    /\ ppu = NesPPU_new_rom(ChrRom, "HORIZONTAL")
    /\ bus = Bus_new
    /\ obs = [op |-> "new", addr |-> 0, arg |-> 0, ret |-> 0, panic |-> FALSE,
              ticks |-> 0, accesses |-> 0]

\* Bus::tick with the dots of one scanline.
BusTick ==
    /\ UNCHANGED cpu
    /\ ~obs.panic
    /\ obs.accesses = 0
    /\ obs.ticks < MaxBusTicks
    /\ \E t \in {Bus_tick([ppu |-> ppu, bus |-> bus], DotsPerScanline)} :
          /\ ppu' = t.m.ppu
          /\ bus' = t.m.bus
          /\ obs' = [obs EXCEPT !.op = "tick", !.ticks = @ + 1]

AccessEnabled ==
    /\ ~obs.panic
    /\ obs.accesses < MaxBusAccesses
    /\ (ppu.scanline = 0 \/ ppu.scanline >= VblankScanline)

BusRead(addr) ==
    /\ UNCHANGED cpu
    /\ AccessEnabled
    /\ LET m == [ppu |-> ppu, bus |-> bus]
           o == [obs EXCEPT !.op = "read", !.addr = addr, !.arg = 0, !.ret = 0,
                            !.accesses = @ + 1]
       IN  IF Bus_mem_read_panics(m, addr)
           THEN /\ UNCHANGED <<ppu, bus>>
                /\ obs' = [o EXCEPT !.panic = TRUE]
           ELSE \E r \in {Bus_mem_read(m, addr)} :
                   /\ ppu' = r.m.ppu
                   /\ bus' = r.m.bus
                   /\ obs' = [o EXCEPT !.ret = r.ret]

BusPeek(addr) ==
    /\ UNCHANGED cpu
    /\ AccessEnabled
    /\ UNCHANGED <<ppu, bus>>
    /\ obs' = [obs EXCEPT !.op = "peek", !.addr = addr, !.arg = 0,
                          !.ret = Bus_mem_peek([ppu |-> ppu, bus |-> bus], addr),
                          !.accesses = @ + 1]

BusWrite(addr, data) ==
    /\ UNCHANGED cpu
    /\ AccessEnabled
    /\ LET m == [ppu |-> ppu, bus |-> bus]
           o == [obs EXCEPT !.op = "write", !.addr = addr, !.arg = data,
                            !.ret = 0, !.accesses = @ + 1]
       IN  IF Bus_mem_write_panics(m, addr, data)
           THEN /\ UNCHANGED <<ppu, bus>>
                /\ obs' = [o EXCEPT !.panic = TRUE]
           ELSE \E m1 \in {Bus_mem_write(m, addr, data)} :
                   /\ ppu' = m1.ppu
                   /\ bus' = m1.bus
                   /\ obs' = o

NextBus ==
    \/ BusTick
    \/ \E addr \in BusAddrs : BusRead(addr)
    \/ \E addr \in BusAddrs : BusPeek(addr)
    \/ \E addr \in BusAddrs : \E data \in BusBytes : BusWrite(addr, data)

SpecBus == InitBus /\ [][NextBus]_vars

InMirrors(addr) == addr >= \H2008 /\ addr <= PPU_REGISTERS_MIRRORS_END

\* The port 0x2000 + (A mod 8) that the address A stands for.
PortOf(addr) == \H2000 + (addr % 8)

\* C17: a read or write of an address A in 0x2008..0x3FFF does what the same
\* access to 0x2000 + (A mod 8) does from the same state: it aborts if and
\* only if that one does, else leaves the same state and returns the same
\* byte; and it leaves internal RAM as it was.
C17_RegistersMirrored ==
    [][ (InMirrors(obs'.addr) /\ obs'.op \in {"read", "write"})
        => LET m == [ppu |-> ppu, bus |-> bus]
               m1 == [ppu |-> ppu', bus |-> bus']
               port == PortOf(obs'.addr)
           IN  /\ bus'.cpu_vram = bus.cpu_vram
               /\ IF obs'.op = "read"
                  THEN /\ obs'.panic = Bus_mem_read_panics(m, port)
                       /\ ~obs'.panic =>
                             /\ m1 = Bus_mem_read(m, port).m
                             /\ obs'.ret = Bus_mem_read(m, port).ret
                  ELSE /\ obs'.panic = Bus_mem_write_panics(m, port, obs'.arg)
                       /\ ~obs'.panic => m1 = Bus_mem_write(m, port, obs'.arg) ]_vars

\* What the claim C18 lists is as the peek found it.
PeekChangedNothing ==
    /\ ppu'.status = ppu.status
    /\ ppu'.addr = ppu.addr
    /\ ppu'.scroll = ppu.scroll
    /\ ppu'.oam_addr = ppu.oam_addr
    /\ ppu'.internal_data_buf = ppu.internal_data_buf
    /\ bus'.joypad1 = bus.joypad1
    /\ <<ppu', bus'>> = <<ppu, bus>>

\* C18 as stated: at every address a read returns a byte, a peek returns
\* that byte, and the peek changes nothing.
C18_PeekIsReadAnywhere ==
    [][ obs'.op = "peek"
        => LET m == [ppu |-> ppu, bus |-> bus]
           IN  /\ ~Bus_mem_read_panics(m, obs'.addr)
               /\ obs'.ret = Bus_mem_read(m, obs'.addr).ret
               /\ PeekChangedNothing ]_vars

\* C18 amended: at every address where a read returns rather than aborts, a
\* peek returns the byte the read would; where the read would abort on a
\* write-only port the peek returns 0; and the peek changes nothing.
C18_PeekIsReadWhereReadReturns ==
    [][ obs'.op = "peek"
        => LET m == [ppu |-> ppu, bus |-> bus]
           IN  /\ ~Bus_mem_read_panics(m, obs'.addr)
                     => obs'.ret = Bus_mem_read(m, obs'.addr).ret
               /\ (obs'.addr \in WriteOnlyPorts) => obs'.ret = 0
               /\ PeekChangedNothing ]_vars

\* A peek of the status port in vertical blank has returned the status byte
\* with the vertical-blank bit, and the bit is still set.
C18_Witness ==
    /\ obs.op = "peek" /\ obs.addr = PPUSTATUS
    /\ is_vblank_started(ppu.status)
    /\ obs.ret = ppu.status

(***************************************************************************)
(* SpecJoypad: the controller port 0x4016 written and read through the bus,*)
(* and the frame-ready callback, which Bus::tick hands `&mut Joypad` and    *)
(* which presses and releases buttons with set_button_pressed_status.  The *)
(* bus is ticked after every instruction, so the callback can fall between *)
(* any two accesses of the port.                                           *)
(* obs: op, ret - the last operation and the byte a read returned; shifts  *)
(* - the reads made with strobe clear since strobe was last set (or since  *)
(* construction); latched - the button byte as the first of those reads    *)
(* found it.                                                               *)
(***************************************************************************)
\* Bytes written to 0x4016: bit 0 clear, set, clear with another bit set.
JoyBytes == {\H00, \H01, \H02}
\* Buttons the callback presses and releases: A, Select, Right.
Buttons == {\H01, \H04, \H80}

InitJoypad ==
    /\ cpu = CPU_new
    /\ ppu = NesPPU_new
    /\ bus = Bus_new
    /\ obs = [op |-> "new", ret |-> 0, shifts |-> 0, latched |-> 0]

JoyWrite(data) ==
    /\ UNCHANGED cpu
    /\ \E m1 \in {Bus_mem_write([ppu |-> ppu, bus |-> bus], JOYPAD1, data)} :
           /\ ppu' = m1.ppu
           /\ bus' = m1.bus
           /\ obs' = [obs EXCEPT
                         !.op = "write", !.ret = 0,
                         !.shifts = IF m1.bus.joypad1.strobe_status THEN 0 ELSE @]

JoyRead ==
    /\ UNCHANGED cpu
    /\ obs.shifts < MaxShiftReads
    /\ \E r \in {Bus_mem_read([ppu |-> ppu, bus |-> bus], JOYPAD1)} :
          /\ ppu' = r.m.ppu
          /\ bus' = r.m.bus
          /\ obs' = [obs EXCEPT
                        !.op = "read", !.ret = r.ret,
                        !.shifts = IF bus.joypad1.strobe_status THEN @ ELSE @ + 1,
                        !.latched = IF obs.shifts = 0
                                    THEN bus.joypad1.button_status ELSE @]

\* `(self.gameloop_callback)(&self.ppu, &mut self.joypad1)` with a callback
\* that presses or releases one button.
FrameReady(button, status) ==
    /\ UNCHANGED cpu
    /\ ppu' = ppu
    /\ bus' = [bus EXCEPT !.joypad1 =
                             Joypad_set_button_pressed_status(@, button, status)]
    /\ obs' = [obs EXCEPT !.op = "callback", !.ret = 0]

NextJoypad ==
    \/ \E data \in JoyBytes : JoyWrite(data)
    \/ JoyRead
    \/ \E button \in Buttons : \E status \in BOOLEAN : FrameReady(button, status)

SpecJoypad == InitJoypad /\ [][NextJoypad]_vars

\* C19: a read with strobe set returns button A's current state and leaves
\* the read index 0; the n-th read with strobe clear since strobe was last
\* set returns the current state of the n-th of A, B, Select, Start, Up,
\* Down, Left, Right (bits 0..7 of the button byte) for n <= 8 and 1 for
\* n > 8; the read index never exceeds 8.
C19_ReadProtocol ==
    /\ [](bus.joypad1.button_index <= 8)
    /\ [][ obs'.op = "read"
           => IF bus.joypad1.strobe_status
              THEN /\ obs'.ret = button_bit(bus.joypad1.button_status, 0)
                   /\ bus.joypad1.button_index = 0
                   /\ bus'.joypad1.button_index = 0
              ELSE IF obs.shifts < 8
              THEN obs'.ret = button_bit(bus.joypad1.button_status, obs.shifts)
              ELSE obs'.ret = 1 ]_vars

\* The ninth read with strobe clear has returned 1 although no button is
\* pressed, and the read index is 8.
C19_Witness ==
    /\ obs.op = "read" /\ obs.shifts = 9 /\ obs.ret = 1
    /\ ~bus.joypad1.strobe_status
    /\ bus.joypad1.button_status = 0
    /\ bus.joypad1.button_index = 8

\* C20: the second to eighth read of a sequence with strobe clear return
\* the bits of the button byte as the first read of the sequence found it,
\* whatever the callback has pressed or released since.
C20_LatchedSnapshot ==
    [][ (obs'.op = "read" /\ ~bus.joypad1.strobe_status
            /\ obs.shifts >= 1 /\ obs.shifts < 8)
        => obs'.ret = button_bit(obs.latched, obs.shifts) ]_vars

(***************************************************************************)
(* SpecMapper1: a cartridge with mapper 1, 64 KiB of program-ROM (four     *)
(* 16 KiB banks) and 8 KiB of character-RAM.  The processor writes the     *)
(* mapper's registers and reads the program window through the bus; the    *)
(* picture processor's side reads and writes character memory through the  *)
(* mapper.  An access that aborts the program leaves the state as it found *)
(* it and ends the behaviour.                                              *)
(* obs: op, addr, arg, ret - the last access, its address, the byte        *)
(* written and the byte returned; panic - the access aborted the program;  *)
(* bits - the low bits of the writes with bit 7 clear since the last       *)
(* completed load or reset, in the order written; dropped - the number of  *)
(* such bits a reset, if the last access was one, has discarded; writes,   *)
(* chr_writes - the register writes and character-RAM writes so far.       *)
(***************************************************************************)
\* Program-ROM whose bank k has 0x10 + k in its first and 0x20 + k in its
\* last byte.
PrgRom64 ==
    [len |-> \H10000,
     bytes |-> [i \in {k * \H4000 : k \in 0 .. 3} \cup
                      {k * \H4000 + \H3FFF : k \in 0 .. 3} |->
                  IF i % \H4000 = 0 THEN \H10 + (i \div \H4000)
                  ELSE \H20 + (i \div \H4000)]]

\* One address in each register's range: the first of the control and
\* character-bank-0 ranges, the last of the character-bank-1 and
\* program-bank ranges.
RegisterAddrs == {\H8000, \HA000, \HDFFF, \HFFFF}
\* Bytes written to the registers: bit 0 clear, bit 0 set, bit 7 set.
RegisterBytes == {\H00, \H01, \H80}
\* The first and last address of the two halves of the program window.
PrgAddrs == {\H8000, \HBFFF, \HC000, \HFFFF}
\* The first and last address of the two picture-side windows.
ChrAddrs == {\H0000, \H0FFF, \H1000, \H1FFF}

InitMapper1 ==
    /\ cpu = CPU_new
    /\ ppu = NesPPU_new
    /\ bus = Bus_new_rom(Mapper1_new(PrgRom64, vec_zeroed(8192), "HORIZONTAL", TRUE))
    /\ obs = [op |-> "new", addr |-> 0, arg |-> 0, ret |-> 0, panic |-> FALSE,
              bits |-> <<>>, dropped |-> 0, writes |-> 0, chr_writes |-> 0]

\* The history of written bits after a register write that returned.
ShiftedBits(bits, data) ==
    IF data >= \H80 \/ Len(bits) = 4 THEN <<>> ELSE Append(bits, data % 2)

\* `self.mapper.borrow_mut().cpu_write(addr, data)` through Bus::mem_write.
M1Write(addr, data) ==
    /\ UNCHANGED cpu
    /\ ~obs.panic
    /\ obs.writes < MaxMapperWrites
    /\ LET m == [ppu |-> ppu, bus |-> bus]
           o == [obs EXCEPT !.op = "write", !.addr = addr, !.arg = data,
                            !.ret = 0, !.dropped = 0, !.writes = @ + 1]
       IN  IF Bus_mem_write_panics(m, addr, data)
           THEN /\ UNCHANGED <<ppu, bus>>
                /\ obs' = [o EXCEPT !.panic = TRUE]
           ELSE \E m1 \in {Bus_mem_write(m, addr, data)} :
                   /\ ppu' = m1.ppu
                   /\ bus' = m1.bus
                   /\ obs' = [o EXCEPT !.bits = ShiftedBits(@, data),
                                       !.dropped = IF data >= \H80
                                                   THEN Len(obs.bits) ELSE 0]

\* `self.mapper.borrow().cpu_read(addr)` through Bus::mem_read.
M1Read(addr) ==
    /\ UNCHANGED cpu
    /\ ~obs.panic
    /\ LET m == [ppu |-> ppu, bus |-> bus]
           o == [obs EXCEPT !.op = "read", !.addr = addr, !.arg = 0, !.ret = 0,
                            !.dropped = 0]
       IN  IF Bus_mem_read_panics(m, addr)
           THEN /\ UNCHANGED <<ppu, bus>>
                /\ obs' = [o EXCEPT !.panic = TRUE]
           ELSE \E r \in {Bus_mem_read(m, addr)} :
                   /\ ppu' = r.m.ppu
                   /\ bus' = r.m.bus
                   /\ obs' = [o EXCEPT !.ret = r.ret]

\* Mapper::ppu_read on the mapper the bus shares with the picture processor.
M1PpuRead(addr) ==
    /\ UNCHANGED cpu
    /\ ~obs.panic
    /\ UNCHANGED <<ppu, bus>>
    /\ LET o == [obs EXCEPT !.op = "ppu_read", !.addr = addr, !.arg = 0, !.ret = 0,
                            !.dropped = 0]
       IN  IF Mapper1_ppu_read_panics(bus.mapper, addr)
           THEN obs' = [o EXCEPT !.panic = TRUE]
           ELSE obs' = [o EXCEPT !.ret = Mapper1_ppu_read(bus.mapper, addr)]

\* Mapper::ppu_write on the same mapper.
M1PpuWrite(addr, data) ==
    /\ UNCHANGED cpu
    /\ ~obs.panic
    /\ obs.chr_writes < MaxChrWrites
    /\ LET o == [obs EXCEPT !.op = "ppu_write", !.addr = addr, !.arg = data,
                            !.ret = 0, !.dropped = 0, !.chr_writes = @ + 1]
       IN  IF Mapper1_ppu_write_panics(bus.mapper, addr, data)
           THEN /\ UNCHANGED <<ppu, bus>>
                /\ obs' = [o EXCEPT !.panic = TRUE]
           ELSE /\ ppu' = ppu
                /\ bus' = [bus EXCEPT !.mapper = Mapper1_ppu_write(@, addr, data)]
                /\ obs' = o

NextMapper1 ==
    \/ \E addr \in RegisterAddrs : \E data \in RegisterBytes : M1Write(addr, data)
    \/ \E addr \in PrgAddrs : M1Read(addr)

SpecMapper1 == InitMapper1 /\ [][NextMapper1]_vars

\* The four registers of a mapper: control, character-bank-0,
\* character-bank-1, program-bank.
Registers(mp) == <<mp.control, mp.chr_bank_0, mp.chr_bank_1, mp.prg_bank>>

\* The 5-bit value of five written bits, the first at bit 0.
ValueOf(bits) == bits[1] + 2 * bits[2] + 4 * bits[3] + 8 * bits[4] + 16 * bits[5]

\* The last step was a register write with bit 7 clear / set.
ShiftWrite == obs'.op = "write" /\ obs'.arg < \H80

ResetWrite == obs'.op = "write" /\ obs'.arg >= \H80

\* C21: a register write with bit 7 clear returns; the first to fourth
\* since the last load or reset shift the bit in at bit 4, count one and
\* change no register; the fifth stores the five bits written (the first at
\* bit 0) into the register (addr - 0x8000) >> 13 selects, leaves the other
\* three, and clears the shift register and the counter.
C21_SerialLoad ==
    [][ ShiftWrite
        => LET mp == bus.mapper
               mp1 == bus'.mapper
               selected == ((obs'.addr - \H8000) \div \H2000) + 1
           IN  /\ ~obs'.panic
               /\ IF Len(obs.bits) < 4
                  THEN /\ mp1.shift_register
                            = (mp.shift_register \div 2) + (obs'.arg % 2) * 16
                       /\ mp1.shift_count = mp.shift_count + 1
                       /\ Registers(mp1) = Registers(mp)
                  ELSE /\ Registers(mp1)
                            = [Registers(mp) EXCEPT ![selected] =
                                   ValueOf(Append(obs.bits, obs'.arg % 2))]
                       /\ mp1.shift_register = 0
                       /\ mp1.shift_count = 0 ]_vars

\* The shift register after the bits written so far: the last at bit 4.
RECURSIVE ShiftedIn(_)
ShiftedIn(bits) ==
    IF bits = <<>> THEN 0
    ELSE (ShiftedIn(SubSeq(bits, 1, Len(bits) - 1)) \div 2) + 16 * bits[Len(bits)]

\* C22: a register write with bit 7 set returns with the shift register and
\* the write counter 0 and program-bank-mode 3, wherever in a serial
\* sequence it falls; and so the counter and the shift register always hold
\* exactly the bits written since the last reset or completed load.
C22_Reset ==
    /\ [][ ResetWrite
           => /\ ~obs'.panic
              /\ bus'.mapper.shift_register = 0
              /\ bus'.mapper.shift_count = 0
              /\ bus'.mapper.prg_rom_bank_mode = 3
              /\ (bus'.mapper.control \div 4) % 4 = 3 ]_vars
    /\ [](/\ bus.mapper.shift_count = Len(obs.bits)
          /\ bus.mapper.shift_register = ShiftedIn(obs.bits))

\* A reset has fallen after the third write of a serial sequence.
C22_Witness ==
    /\ obs.op = "write" /\ obs.arg >= \H80 /\ ~obs.panic
    /\ obs.dropped = 3
    /\ bus.mapper.shift_count = 0
    /\ bus.mapper.prg_rom_bank_mode = 3

\* The index into program-ROM that the bank mode in the control register
\* and the bank in the program-bank register give an address of the
\* window.
BankedIndex(mp, addr) ==
    LET mode == (mp.control \div 4) % 4
        bank == mp.prg_bank % 16
        last == (mp.prg_rom.len \div \H4000) - 1
    IN  CASE mode = 3 -> IF addr >= \HC000 THEN last * \H4000 + (addr - \HC000)
                         ELSE bank * \H4000 + (addr - \H8000)
          [] mode = 2 -> IF addr >= \HC000 THEN bank * \H4000 + (addr - \HC000)
                         ELSE addr - \H8000
          [] OTHER    -> (bank - (bank % 2)) * \H4000 + (addr - \H8000)

\* C23: in every state, the freshly constructed one included, a read of the
\* program window returns the program-ROM byte of the bank its mode assigns
\* to the address.
C23_BankModes ==
    [][ obs'.op = "read"
        => /\ ~obs'.panic
           /\ obs'.ret = load(bus.mapper.prg_rom.bytes,
                              BankedIndex(bus.mapper, obs'.addr)) ]_vars

\* Mirroring as the control bits 1..0 encode it.
DecodedMirroring(bits) ==
    CASE bits = 0 -> "SINGLE_LOWER"
      [] bits = 1 -> "SINGLE_UPPER"
      [] bits = 2 -> "VERTICAL"
      [] bits = 3 -> "HORIZONTAL"

\* C24: the fifth write of a serial load into the control register returns,
\* and the mirroring is the one the two low bits of the loaded value encode.
C24_ControlMirroring ==
    [][ (ShiftWrite /\ Len(obs.bits) = 4 /\ obs'.addr < \HA000)
        => /\ ~obs'.panic
           /\ bus'.mapper.mirroring
                = DecodedMirroring(ValueOf(Append(obs.bits, obs'.arg % 2)) % 4) ]_vars

(***************************************************************************)
(* SpecMapper1Chr: the cartridge of SpecMapper1 with the processor writing *)
(* the control and character-bank registers and the picture processor's    *)
(* side reading and writing character-RAM through the mapper.              *)
(***************************************************************************)
\* The control register, character-bank-0 and character-bank-1.
ChrRegisterAddrs == {\H8000, \HA000, \HDFFF}
\* Bytes written to character-RAM.
ChrBytes == {\H63}

NextMapper1Chr ==
    \/ \E addr \in ChrRegisterAddrs : \E data \in RegisterBytes : M1Write(addr, data)
    \/ \E addr \in ChrAddrs : M1PpuRead(addr)
    \/ \E addr \in ChrAddrs : \E data \in ChrBytes : M1PpuWrite(addr, data)

SpecMapper1Chr == InitMapper1 /\ [][NextMapper1Chr]_vars

\* The index into character memory of the address A of a window: the
\* window's bank offset plus the offset of A in the window.
WindowIndex(mp, addr) ==
    IF addr <= \H0FFF THEN mp.chr_bank_0_offset + addr
    ELSE mp.chr_bank_1_offset + (addr - \H1000)

\* C25: a picture-side read of A in 0x0000..0x1FFF returns the byte of
\* character memory at its window's bank offset plus A's offset in the
\* window; and with character-RAM a write of d to A returns, and a read of
\* A right after it returns d.
C25_ChrWindows ==
    [][ /\ obs'.op = "ppu_read"
           => /\ ~obs'.panic
              /\ obs'.ret = load(bus.mapper.chr_rom.bytes,
                                 WindowIndex(bus.mapper, obs'.addr))
        /\ obs'.op = "ppu_write" => ~obs'.panic
        /\ (obs.op = "ppu_write" /\ obs'.op = "ppu_read" /\ obs'.addr = obs.addr)
           => obs'.ret = obs.arg ]_vars

(***************************************************************************)
(* SpecMapper0: the processor's bus with a Mapper0 cartridge of 16 KiB or  *)
(* 32 KiB of program-ROM.  obs: the last access (op, addr, arg, ret),      *)
(* whether it aborted, and the number of accesses so far.                  *)
(***************************************************************************)
\* Program-ROM of k 16 KiB banks: bank j has 0x11 + 0x22 * j in its first and
\* 0x22 + 0x22 * j in its last byte.
PrgRom0(k) ==
    [len |-> k * \H4000,
     bytes |-> [i \in {j * \H4000 : j \in 0 .. k - 1} \cup
                      {j * \H4000 + \H3FFF : j \in 0 .. k - 1} |->
                  IF i % \H4000 = 0 THEN \H11 + \H22 * (i \div \H4000)
                  ELSE \H22 + \H22 * (i \div \H4000)]]

\* The first and last address of each 4 KiB half of the work-RAM window.
WorkRamAddrs == {\H6000, \H6FFF, \H7000, \H7FFF}
\* One address of the processor's own RAM, the work-RAM window and the
\* program window.
Mapper0Addrs == {\H0000} \cup WorkRamAddrs \cup PrgAddrs
Mapper0Bytes == {\H5A, \HA5}

InitMapper0 ==
    /\ cpu = CPU_new
    /\ ppu = NesPPU_new
    /\ \E k \in {1, 2} :
          bus = Bus_new_rom(Mapper0_new(PrgRom0(k), vec_zeroed(8192), "HORIZONTAL", TRUE))
    /\ obs = [op |-> "new", addr |-> 0, arg |-> 0, ret |-> 0, panic |-> FALSE,
              accesses |-> 0]

\* Bus::mem_write from the processor.
M0Write(addr, data) ==
    /\ UNCHANGED cpu
    /\ ~obs.panic
    /\ obs.accesses < MaxBusAccesses
    /\ LET m == [ppu |-> ppu, bus |-> bus]
           o == [obs EXCEPT !.op = "write", !.addr = addr, !.arg = data,
                            !.ret = 0, !.accesses = @ + 1]
       IN  IF Bus_mem_write_panics(m, addr, data)
           THEN /\ UNCHANGED <<ppu, bus>>
                /\ obs' = [o EXCEPT !.panic = TRUE]
           ELSE \E m1 \in {Bus_mem_write(m, addr, data)} :
                   /\ ppu' = m1.ppu
                   /\ bus' = m1.bus
                   /\ obs' = o

\* Bus::mem_read from the processor.
M0Read(addr) ==
    /\ UNCHANGED cpu
    /\ ~obs.panic
    /\ obs.accesses < MaxBusAccesses
    /\ LET m == [ppu |-> ppu, bus |-> bus]
           o == [obs EXCEPT !.op = "read", !.addr = addr, !.arg = 0, !.ret = 0,
                            !.accesses = @ + 1]
       IN  IF Bus_mem_read_panics(m, addr)
           THEN /\ UNCHANGED <<ppu, bus>>
                /\ obs' = [o EXCEPT !.panic = TRUE]
           ELSE \E r \in {Bus_mem_read(m, addr)} :
                   /\ ppu' = r.m.ppu
                   /\ bus' = r.m.bus
                   /\ obs' = [o EXCEPT !.ret = r.ret]

NextMapper0 ==
    \/ \E addr \in Mapper0Addrs : \E data \in Mapper0Bytes : M0Write(addr, data)
    \/ \E addr \in Mapper0Addrs : M0Read(addr)

SpecMapper0 == InitMapper0 /\ [][NextMapper0]_vars

\* C26: a processor write of d to an address A of 0x6000..0x7FFF returns,
\* and a processor read of A right after it returns d.
C26_WorkRamRoundTrip ==
    [][ /\ (obs'.op = "write" /\ obs'.addr \in WorkRamAddrs) => ~obs'.panic
        /\ (obs.op = "write" /\ obs.addr \in WorkRamAddrs /\ obs'.op = "read"
              /\ obs'.addr = obs.addr)
           => (~obs'.panic /\ obs'.ret = obs.arg) ]_vars

\* The byte of the program-ROM prg at index i.
PrgByte(prg, i) == load(prg.bytes, i)

\* C27: in every reachable state and for every A of the program window, a
\* read of A returns; with 16 KiB of program-ROM it returns what a read of
\* 0x8000 + ((A - 0x8000) mod 0x4000) returns, and with 32 KiB the
\* program-ROM byte at A - 0x8000.
C27_PrgMirror ==
    LET m == [ppu |-> ppu, bus |-> bus]
        prg == bus.mapper.prg_rom
    IN  \A A \in PrgAddrs :
           /\ ~Bus_mem_read_panics(m, A)
           /\ prg.len = \H4000 =>
                  Bus_mem_read(m, A).ret =
                      Bus_mem_read(m, \H8000 + ((A - \H8000) % \H4000)).ret
           /\ prg.len = \H8000 =>
                  Bus_mem_read(m, A).ret = PrgByte(prg, A - \H8000)
           /\ (obs.op = "read" /\ obs.addr = A /\ ~obs.panic)
                  => obs.ret = Bus_mem_read(m, A).ret

\* A read of 0xC000 with 16 KiB of program-ROM returned the first byte of the
\* only bank, and a read of 0xFFFF its last.
C27_Witness ==
    /\ bus.mapper.prg_rom.len = \H4000
    /\ obs.op = "read" /\ ~obs.panic
    /\ obs.addr = \HFFFF /\ obs.ret = \H22
    /\ obs.accesses = 2

(***************************************************************************)
(* Rom (src/src/rom.rs).  The file is a Vec<u8>; Rom_new_panics tells      *)
(* whether Rom::new aborts the program, Rom_new is its Result.             *)
(***************************************************************************)
NES_TAG == <<\H4E, \H45, \H53, \H1A>>
PRG_ROM_PAGE_SIZE == 16384
CHR_ROM_PAGE_SIZE == 8192

RECURSIVE bit_or(_, _)
bit_or(a, b) ==
    IF a = 0 THEN b
    ELSE IF b = 0 THEN a
    ELSE (IF a % 2 = 1 \/ b % 2 = 1 THEN 1 ELSE 0) + 2 * bit_or(a \div 2, b \div 2)

\* `v[start..start + n].to_vec()`; the slice aborts when it reaches beyond
\* the end of v.
vec_slice_panics(v, start, n) == start + n > v.len

vec_slice(v, start, n) ==
    [len |-> n,
     bytes |-> [i \in {j - start : j \in {k \in DOMAIN v.bytes :
                                            k >= start /\ k < start + n}} |->
                  v.bytes[i + start]]]

\* `&raw[0..4] != NES_TAG`, for a file of at least four bytes.
Rom_tag_differs(raw) == \E i \in 0 .. 3 : load(raw.bytes, i) # NES_TAG[i + 1]

Rom_mapper_id(raw) ==
    bit_or(bit_and(load(raw.bytes, 7), \HF0), load(raw.bytes, 6) \div 16)

Rom_ines_ver(raw) == bit_and(load(raw.bytes, 7) \div 4, 3)

Rom_screen_mirroring(raw) ==
    LET four_screen == bit_and(load(raw.bytes, 6), 8) # 0
        vertical_mirroring == bit_and(load(raw.bytes, 6), 1) # 0
    IN  IF four_screen THEN "FOUR_SCREEN"
        ELSE IF vertical_mirroring THEN "VERTICAL"
        ELSE "HORIZONTAL"

Rom_prg_rom_size(raw) == load(raw.bytes, 4) * PRG_ROM_PAGE_SIZE
Rom_chr_rom_size(raw) == load(raw.bytes, 5) * CHR_ROM_PAGE_SIZE

\* Mutant: the trainer is not skipped.
Rom_prg_rom_start_no_trainer(raw) == 16

Rom_prg_rom_start(raw) ==
    IF bit_and(load(raw.bytes, 6), 4) # 0 THEN 16 + 512 ELSE 16

Rom_chr_rom_start(raw) == Rom_prg_rom_start(raw) + Rom_prg_rom_size(raw)

\* The aborts of Rom::new: the slice raw[0..4] of a file shorter than four
\* bytes; raw[7] of a file shorter than eight; and, once the tag and the
\* version are accepted, the slices of program-ROM and character-ROM when
\* they reach beyond the end of the file.
Rom_new_panics(raw) ==
    \/ raw.len < 4
    \/ /\ ~Rom_tag_differs(raw)
       /\ \/ raw.len < 8
          \/ /\ Rom_ines_ver(raw) = 0
             /\ \/ vec_slice_panics(raw, Rom_prg_rom_start(raw), Rom_prg_rom_size(raw))
                \/ /\ Rom_chr_rom_size(raw) # 0
                   /\ vec_slice_panics(raw, Rom_chr_rom_start(raw),
                                       Rom_chr_rom_size(raw))

\* The fields of a Result that is an Err.
NoRom ==
    [prg_rom |-> vec_zeroed(0), chr_rom |-> vec_zeroed(0), mapper_id |-> 0,
     screen_mirroring |-> "HORIZONTAL", is_chr_ram |-> FALSE]

\* Result<Rom, String>: ok tells Ok from Err, err is the message of an Err,
\* rom the value of an Ok.
Rom_new(raw) ==
    IF Rom_tag_differs(raw)
    THEN [ok |-> FALSE, err |-> "File is not in iNES file format", rom |-> NoRom]
    ELSE IF Rom_ines_ver(raw) # 0
    THEN [ok |-> FALSE, err |-> "NES2.0 format is not supported", rom |-> NoRom]
    ELSE [ok |-> TRUE, err |-> "",
          rom |-> [prg_rom |-> vec_slice(raw, Rom_prg_rom_start(raw),
                                         Rom_prg_rom_size(raw)),
                   chr_rom |-> IF Rom_chr_rom_size(raw) = 0 THEN vec_zeroed(8192)
                               ELSE vec_slice(raw, Rom_chr_rom_start(raw),
                                              Rom_chr_rom_size(raw)),
                   mapper_id |-> Rom_mapper_id(raw),
                   screen_mirroring |-> Rom_screen_mirroring(raw),
                   is_chr_ram |-> Rom_chr_rom_size(raw) = 0]]

(***************************************************************************)
(* SpecRom: Rom::new applied to files put together as the tests' create_rom *)
(* does, whole or cut short.  obs: the parts of the file (header, trainer, *)
(* prg, chr), the file itself (raw), and, once decoded, the Result (ret)   *)
(* or the abort (panic).                                                   *)
(***************************************************************************)
\* Vec::extend.
vec_extend(a, b) ==
    [len |-> a.len + b.len,
     bytes |-> a.bytes @@ [i \in {j + a.len : j \in DOMAIN b.bytes} |->
                             b.bytes[i - a.len]]]

\* The vector of the bytes of a sequence.
vec_of(seq) ==
    [len |-> Len(seq),
     bytes |-> [i \in {k - 1 : k \in {j \in 1 .. Len(seq) : seq[j] # 0}} |->
                  seq[i + 1]]]

\* The first n bytes of v.
vec_truncate(v, n) == IF n >= v.len THEN v ELSE vec_slice(v, 0, n)

\* n bytes, the first and the last of them marked.
Marked(n, first, last) ==
    [len |-> n,
     bytes |-> IF n = 0 THEN zeroed ELSE ((n - 1) :> last) @@ (0 :> first)]

\* The tests' create_rom: header, trainer if any, program-ROM, character-ROM.
create_rom(header, trainer, pgp_rom, chr_rom) ==
    vec_extend(vec_extend(vec_extend(header, trainer), pgp_rom), chr_rom)

\* The fourth byte of the tag: right, wrong.
TagInputs == {\H1A, \H1B}
\* Byte 6: nothing set; vertical; trainer; four-screen and vertical; mapper
\* low nibble 3 and vertical, without and with trainer.
Byte6Inputs == {\H00, \H01, \H04, \H09, \H31, \H35}
\* Byte 7: version 1; version 2; version 1 with mapper high nibble 3.
Byte7Inputs == {\H00, \H08, \H30}
\* Lengths the file is cut to; 0 leaves it whole and -1 drops its last byte.
CutInputs == {0, 3, 7, 15, -1}

InitRom ==
    /\ cpu = CPU_new
    /\ ppu = NesPPU_new
    /\ bus = Bus_new
    /\ \E tag \in TagInputs : \E prg_banks \in 0 .. MaxPrgBanks :
       \E chr_banks \in 0 .. MaxChrBanks :
       \E b6 \in Byte6Inputs : \E b7 \in Byte7Inputs : \E cut \in CutInputs :
          LET header == vec_of(<<\H4E, \H45, \H53, tag, prg_banks, chr_banks, b6, b7,
                                 0, 0, 0, 0, 0, 0, 0, 0>>)
              trainer == IF bit_and(b6, 4) # 0 THEN Marked(512, \H71, \H72)
                         ELSE vec_zeroed(0)
              pgp_rom == Marked(prg_banks * PRG_ROM_PAGE_SIZE, \H11, \H12)
              chr_rom == Marked(chr_banks * CHR_ROM_PAGE_SIZE, \H21, \H22)
              whole == create_rom(header, trainer, pgp_rom, chr_rom)
          IN  obs = [op |-> "file", header |-> header, trainer |-> trainer,
                     prg |-> pgp_rom, chr |-> chr_rom,
                     raw |-> IF cut = 0 THEN whole
                             ELSE IF cut = -1 THEN vec_truncate(whole, whole.len - 1)
                             ELSE vec_truncate(whole, cut),
                     ret |-> [ok |-> FALSE, err |-> "", rom |-> NoRom],
                     panic |-> FALSE]

\* Rom::new(&raw).
RomDecode ==
    /\ UNCHANGED cpu
    /\ obs.op = "file"
    /\ UNCHANGED <<ppu, bus>>
    /\ IF Rom_new_panics(obs.raw)
       THEN obs' = [obs EXCEPT !.op = "decoded", !.panic = TRUE]
       ELSE obs' = [obs EXCEPT !.op = "decoded", !.ret = Rom_new(obs.raw)]

NextRom == RomDecode

SpecRom == InitRom /\ [][NextRom]_vars

\* The header bytes of the file as put together.
HeaderByte(i) == load(obs.header.bytes, i)

\* The file is whole: nothing was cut off it.
Whole == obs.raw.len = obs.header.len + obs.trainer.len + obs.prg.len + obs.chr.len

TagRight == \A i \in 0 .. 3 : HeaderByte(i) = NES_TAG[i + 1]

Version1 == (HeaderByte(7) \div 4) % 4 = 0

\* C28: decoding never aborts, and a file with a wrong tag, with format
\* version 2, or shorter than the header or than the sizes the header
\* declares is reported as an Err.
C28_MalformedIsErr ==
    obs.op = "decoded" =>
       /\ ~obs.panic
       /\ (~TagRight \/ ~Version1 \/ ~Whole) => ~obs.ret.ok

\* The mirroring the header declares.
HeaderMirroring ==
    IF (HeaderByte(6) \div 8) % 2 = 1 THEN "FOUR_SCREEN"
    ELSE IF HeaderByte(6) % 2 = 1 THEN "VERTICAL"
    ELSE "HORIZONTAL"

\* What the decoded image has of the header, and its program-ROM.
DecodedHeaderAndPrg ==
    /\ ~obs.panic
    /\ obs.ret.ok
    /\ obs.ret.rom.prg_rom = obs.prg
    /\ obs.ret.rom.mapper_id = (HeaderByte(7) \div 16) * 16 + (HeaderByte(6) \div 16)
    /\ obs.ret.rom.screen_mirroring = HeaderMirroring

\* C29: of a whole version-1 file with the right tag the decoded program-ROM
\* is the header[4] x 16 KiB bytes after header and trainer, the decoded
\* character-ROM the header[5] x 8 KiB bytes after them, the mapper id
\* (header[7] & 0xF0) | (header[6] >> 4), and the mirroring the one the
\* header declares.
C29_Decoded ==
    (obs.op = "decoded" /\ TagRight /\ Version1 /\ Whole) =>
       /\ DecodedHeaderAndPrg
       /\ obs.ret.rom.chr_rom = obs.chr

\* C29, amended: as above, except that with header[5] = 0 the decoded
\* character memory is 8 KiB of zero bytes flagged as character-RAM.
C29_DecodedOrChrRam ==
    (obs.op = "decoded" /\ TagRight /\ Version1 /\ Whole) =>
       /\ DecodedHeaderAndPrg
       /\ IF HeaderByte(5) = 0
          THEN obs.ret.rom.chr_rom = vec_zeroed(8192) /\ obs.ret.rom.is_chr_ram
          ELSE obs.ret.rom.chr_rom = obs.chr /\ ~obs.ret.rom.is_chr_ram

\* A whole file with a trainer, two program banks and no character bank has
\* been decoded, and the bytes after the trainer are the program-ROM.
C29_Witness ==
    /\ obs.op = "decoded" /\ TagRight /\ Version1 /\ Whole
    /\ obs.trainer.len = 512
    /\ HeaderByte(4) = 2 /\ HeaderByte(5) = 0
    /\ obs.ret.ok
    /\ load(obs.ret.rom.prg_rom.bytes, 0) = \H11
    /\ load(obs.ret.rom.prg_rom.bytes, \H7FFF) = \H12
    /\ obs.ret.rom.mapper_id = \H33

(***************************************************************************)
(* SpecCpu: CPU::reset and the handlers of INX, INY, TYA, TXS and SEC on   *)
(* the processor of a Mapper0 cartridge whose program-ROM holds the reset  *)
(* vector.  obs: the last operation (op), the vector the cartridge was     *)
(* made with, whether the operation aborted, and the operations so far.    *)
(***************************************************************************)
ResetVectors == {\H8000, \HC5F4}

\* 16 KiB of program-ROM with the word v at 0xFFFC (index 0x3FFC).
PrgRomWithVector(v) ==
    [len |-> \H4000,
     bytes |-> store(store(zeroed, \H3FFC, v % 256), \H3FFD, v \div 256)]

InitCpu ==
    /\ cpu = CPU_new
    /\ ppu = NesPPU_new
    /\ \E v \in ResetVectors :
          /\ bus = Bus_new_rom(Mapper0_new(PrgRomWithVector(v), vec_zeroed(8192),
                                           "HORIZONTAL", TRUE))
          /\ obs = [op |-> "new", vector |-> v, panic |-> FALSE, steps |-> 0]

CpuEnabled == ~obs.panic /\ obs.steps < MaxCpuSteps

\* An instruction handler that touches the registers only.
CpuHandler(op, c) ==
    /\ CpuEnabled
    /\ cpu' = c
    /\ UNCHANGED <<ppu, bus>>
    /\ obs' = [obs EXCEPT !.op = op, !.steps = @ + 1]

CpuInx == CpuHandler("inx", CPU_inx(cpu))

CpuIny == CpuHandler("iny", CPU_iny(cpu))

CpuTya == CpuHandler("tya", CPU_tya(cpu))

CpuTxs == CpuHandler("txs", CPU_txs(cpu))

CpuSec == CpuHandler("sec", CPU_sec(cpu))

\* cpu.reset().
CpuReset ==
    /\ CpuEnabled
    /\ LET m == [ppu |-> ppu, bus |-> bus]
           o == [obs EXCEPT !.op = "reset", !.steps = @ + 1]
       IN  IF CPU_reset_panics(cpu, m)
           THEN /\ UNCHANGED <<ppu, bus, cpu>>
                /\ obs' = [o EXCEPT !.panic = TRUE]
           ELSE \E r \in {CPU_reset(cpu, m)} :
                   /\ cpu' = r.cpu
                   /\ ppu' = r.m.ppu
                   /\ bus' = r.m.bus
                   /\ obs' = o

NextCpu ==
    \/ CpuReset
    \/ CpuInx
    \/ CpuIny
    \/ CpuTya
    \/ CpuTxs
    \/ CpuSec

SpecCpu == InitCpu /\ [][NextCpu]_vars

\* C30: a reset, whatever the registers were, returns with A, X and Y 0,
\* SP 0xFF, the status byte 0b00100000 and PC the word at 0xFFFC.
C30_Reset ==
    [][ obs'.op = "reset" =>
          /\ ~obs'.panic
          /\ cpu'.reg_a = 0 /\ cpu'.reg_x = 0 /\ cpu'.reg_y = 0
          /\ cpu'.sp = \HFF
          /\ cpu'.status = \H20
          /\ cpu'.pc = obs.vector ]_vars

(***************************************************************************)
(* SpecStack: the interrupt entry, RTI and the handlers of PHA, PLA, PHP,  *)
(* PLP, DEX and TXS on the processor of a Mapper0 cartridge that holds the *)
(* three vectors.  CPU::interrupt_nmi is what the loop calls when the bus  *)
(* reports a pending NMI; what it does depends on the registers only.      *)
(* obs: the last operation (op), whether it aborted, the operations so far *)
(* (steps), whether a reset has happened, and PC and SP as the last NMI    *)
(* entry found them.                                                       *)
(***************************************************************************)
ResetVector == \HC5F4
NmiVector == \H9A3C
IrqVector == \HB7D2

\* 16 KiB of program-ROM with the NMI, reset and IRQ vectors at
\* 0xFFFA..0xFFFF (index 0x3FFA..0x3FFF) and prog at 0x8000.
PrgRomProgram(prog) ==
    [len |-> \H4000,
     bytes |-> (\H3FFA :> (NmiVector % 256)) @@ (\H3FFB :> (NmiVector \div 256)) @@
               (\H3FFC :> (ResetVector % 256)) @@ (\H3FFD :> (ResetVector \div 256)) @@
               (\H3FFE :> (IrqVector % 256)) @@ (\H3FFF :> (IrqVector \div 256)) @@
               vec_of(prog).bytes]

InitStack ==
    /\ cpu = CPU_new
    /\ ppu = NesPPU_new
    /\ bus = Bus_new_rom(Mapper0_new(PrgRomProgram(<<>>), vec_zeroed(8192),
                                     "HORIZONTAL", TRUE))
    /\ obs = [op |-> "new", panic |-> FALSE, steps |-> 0, was_reset |-> FALSE,
              pc0 |-> 0, sp0 |-> 0]

\* An operation that gives back the registers and the machine.
StackOp(op, r) ==
    /\ ~obs.panic
    /\ obs.steps < MaxStackSteps
    /\ \E s \in {r} :
          /\ cpu' = s.cpu
          /\ ppu' = s.m.ppu
          /\ bus' = s.m.bus
    /\ obs' = [obs EXCEPT !.op = op, !.steps = @ + 1,
                          !.was_reset = @ \/ op = "reset",
                          !.pc0 = IF op = "nmi" THEN cpu.pc ELSE @,
                          !.sp0 = IF op = "nmi" THEN cpu.sp ELSE @]

Machine == [ppu |-> ppu, bus |-> bus]

StackReset == StackOp("reset", CPU_reset(cpu, Machine))

StackDex == StackOp("dex", [cpu |-> CPU_dex(cpu), m |-> Machine])

StackTxs == StackOp("txs", [cpu |-> CPU_txs(cpu), m |-> Machine])

StackNmi == StackOp("nmi", CPU_interrupt_nmi_regs(cpu, Machine))

StackRti == StackOp("rti", CPU_rti(cpu, Machine))

StackPha == StackOp("pha", CPU_pha(cpu, Machine))

StackPla == StackOp("pla", CPU_pla(cpu, Machine))

StackPhp == StackOp("php", CPU_php(cpu, Machine))

StackPlp == StackOp("plp", CPU_plp(cpu, Machine))

NextStack ==
    \/ StackReset
    \/ StackDex
    \/ StackTxs
    \/ StackNmi
    \/ StackRti
    \/ StackPha
    \/ StackPla
    \/ StackPhp
    \/ StackPlp

SpecStack == InitStack /\ [][NextStack]_vars

\* The byte of the stack page at stack pointer sp, and the processor's RAM
\* after a push of data at sp.
StackByte(ram, sp) == load(ram, \H0100 + (sp % 256))

Pushed(ram, sp, data) == store(ram, \H0100 + (sp % 256), data)

\* C31: an NMI entry leaves PC's high byte at 0x0100 + SP, its low byte
\* below it and below that the status with B clear and bit 5 set; it sets I,
\* adds 2 to the bus's cycles, loads PC from 0xFFFA and lowers SP by 3; an
\* RTI right after it restores PC and SP.
C31_NmiEntry ==
    [][ /\ obs'.op = "nmi" =>
             /\ bus'.cpu_vram =
                    Pushed(Pushed(Pushed(bus.cpu_vram, cpu.sp, cpu.pc \div 256),
                                  cpu.sp + 255, cpu.pc % 256),
                           cpu.sp + 254, insert(remove(cpu.status, FLAG_B), FLAG_5))
             /\ cpu'.status = insert(cpu.status, FLAG_I)
             /\ bus'.cycles = bus.cycles + 2
             /\ cpu'.pc = NmiVector
             /\ cpu'.sp = (cpu.sp + 253) % 256
        /\ (obs.op = "nmi" /\ obs'.op = "rti") =>
             /\ cpu'.pc = obs.pc0
             /\ cpu'.sp = obs.sp0 ]_vars

\* C37: bit 5 of the status is 1 after a PLP or an RTI, and in every state
\* from the first reset on.
C37_Bit5Set ==
    (obs.was_reset \/ obs.op \in {"plp", "rti"}) => contains(cpu.status, FLAG_5)

\* C40: every push writes, and every pull reads, the stack page only: an
\* 8-bit push changes the byte at 0x0100 + SP and nothing else, the three
\* bytes of an interrupt entry go to 0x0100 + SP and the two places below
\* it in the page, and a pull returns the bytes of the page above SP, SP
\* wrapping within the page.
C40_StackPage ==
    [][ /\ obs'.op = "pha" => bus'.cpu_vram = Pushed(bus.cpu_vram, cpu.sp, cpu.reg_a)
        /\ obs'.op = "php" =>
               bus'.cpu_vram = Pushed(bus.cpu_vram, cpu.sp, insert(cpu.status, FLAG_B))
        /\ obs'.op = "nmi" =>
               \E flag \in 0 .. 255 :
                  bus'.cpu_vram =
                     Pushed(Pushed(Pushed(bus.cpu_vram, cpu.sp, cpu.pc \div 256),
                                   cpu.sp + 255, cpu.pc % 256),
                            cpu.sp + 254, flag)
        /\ obs'.op = "pla" => cpu'.reg_a = StackByte(bus.cpu_vram, cpu.sp + 1)
        /\ obs'.op = "plp" => cpu'.status = StackByte(bus.cpu_vram, cpu.sp + 1)
        /\ obs'.op = "rti" =>
               cpu'.pc = StackByte(bus.cpu_vram, cpu.sp + 2)
                         + 256 * StackByte(bus.cpu_vram, cpu.sp + 3) ]_vars

(***************************************************************************)
(* SpecRun: the loop of CPU::run_with_callback on a Mapper0 cartridge      *)
(* whose program-ROM holds a short program at its reset vector; the rest   *)
(* of the ROM is zero and so reads as BRK.  A program is its address       *)
(* (base), its bytes (code) and further ROM bytes by address (data).       *)
(* obs: the instruction the last iteration executed (op), its address (p)  *)
(* and SP before it (sp0), whether the iteration aborted, whether the loop *)
(* has returned, the operations so far and whether a reset has happened.   *)
(***************************************************************************)
Program(base, code, data) == [base |-> base, code |-> code, data |-> data]

NoData == [i \in {} |-> 0]

\* The index in 16 KiB of program-ROM of the address addr.
RomIndex(addr) == (addr - \H8000) % \H4000

\* 16 KiB of program-ROM with the program, its data and the three vectors,
\* the reset vector at the program.
PrgRomOf(prog) ==
    LET at == {k \in 1 .. Len(prog.code) : prog.code[k] # 0}
        code == [i \in {RomIndex(prog.base) + k - 1 : k \in at}
                   |-> prog.code[i - RomIndex(prog.base) + 1]]
        data == [i \in {RomIndex(a) : a \in DOMAIN prog.data}
                   |-> prog.data[CHOOSE a \in DOMAIN prog.data : RomIndex(a) = i]]
    IN  [len |-> \H4000,
         bytes |-> (\H3FFA :> (NmiVector % 256)) @@ (\H3FFB :> (NmiVector \div 256)) @@
                   (\H3FFC :> (prog.base % 256)) @@ (\H3FFD :> (prog.base \div 256)) @@
                   (\H3FFE :> (IrqVector % 256)) @@ (\H3FFF :> (IrqVector \div 256)) @@
                   code @@ data]

\* BRK alone and after an instruction.
BrkPrograms ==
    {Program(\H8000, <<\H00>>, NoData), Program(\H8010, <<\H38, \H00>>, NoData),
     Program(\H80FF, <<\HEA, \H00>>, NoData)}

\* A branch after the instructions that set or clear its flag, at addresses
\* around a page end, with forward and backward offsets.
BranchBases == {\H8000, \H8002, \H8080, \H80FB, \H80FC, \H80FD}

BranchOffsets == {\H00, \H03, \H7F, \H80, \HFD, \HFF}

BranchSetups ==
    {<<\H38, \H90>>, <<\H18, \H90>>, <<\H38, \HB0>>, <<\H18, \HB0>>,
     <<\HA9, \H00, \HF0>>, <<\HA9, \H01, \HF0>>,
     <<\HA9, \H00, \HD0>>, <<\HA9, \H01, \HD0>>,
     <<\HA9, \H80, \H30>>, <<\HA9, \H01, \H30>>,
     <<\HA9, \H80, \H10>>, <<\HA9, \H01, \H10>>,
     <<\HA9, \H7F, \H69, \H01, \H50>>, <<\HEA, \H50>>,
     <<\HA9, \H7F, \H69, \H01, \H70>>, <<\HEA, \H70>>}

BranchPrograms ==
    {Program(b, s \o <<o>>, NoData) :
        b \in BranchBases, s \in BranchSetups, o \in BranchOffsets}

\* JSR to an RTS, with SP as reset leaves it and after LDX/TXS.
JsrTargets == {\H9000, \HA1FF}

JsrPrograms ==
    {Program(b, <<\H20, t % 256, t \div 256>>, t :> \H60) :
        b \in {\H8000, \H80FE}, t \in JsrTargets}
    \cup
    {Program(\H8000, <<\HA2, x, \H9A, \H20, t % 256, t \div 256>>, t :> \H60) :
        x \in {\H00, \H01, \H02, \H80}, t \in JsrTargets}

\* JMP through a pointer in the middle, at the end and at the start of a
\* page, and the absolute JMP.
JmpData ==
    (\H9000 :> \H12) @@ (\H9001 :> \H9A) @@ (\H9010 :> \H78) @@ (\H9011 :> \H65) @@
    (\H90FF :> \H34) @@ (\H9100 :> \H56) @@ (\H9101 :> \H21)

JmpPrograms ==
    {Program(\H8000, <<\H6C, q % 256, q \div 256>>, JmpData) :
        q \in {\H9000, \H9010, \H90FF, \H9100, \H05FF, \H0010}}
    \cup {Program(\H8000, <<\H4C, \HFF, \H90>>, JmpData)}

\* ADC and SBC of an immediate operand with each accumulator value and
\* carry of ArithBytes.
ArithBytes == {\H00, \H01, \H50, \H7F, \H80, \HB0, \HFF}

ArithPrograms ==
    {Program(\H8000, <<\HA9, a, cf, op, v>>, NoData) :
        a \in ArithBytes, cf \in {\H18, \H38}, op \in {\H69, \HE9}, v \in ArithBytes}

Programs == BrkPrograms \cup BranchPrograms \cup JsrPrograms \cup JmpPrograms
            \cup ArithPrograms

InitRun ==
    /\ cpu = CPU_new
    /\ ppu = NesPPU_new
    /\ \E prog \in Programs :
          bus = Bus_new_rom(Mapper0_new(PrgRomOf(prog), vec_zeroed(8192),
                                        "HORIZONTAL", TRUE))
    /\ obs = [op |-> "new", p |-> 0, sp0 |-> 0, panic |-> FALSE, returned |-> FALSE,
              steps |-> 0, was_reset |-> FALSE]

\* CPU::reset before the loop is entered.
RunReset ==
    /\ ~obs.panic
    /\ ~obs.was_reset
    /\ \E s \in {CPU_reset(cpu, Machine)} :
          /\ cpu' = s.cpu
          /\ ppu' = s.m.ppu
          /\ bus' = s.m.bus
    /\ obs' = [obs EXCEPT !.op = "reset", !.steps = @ + 1, !.was_reset = TRUE]

\* One iteration of the loop.
RunStep ==
    /\ ~obs.panic
    /\ ~obs.returned
    /\ obs.was_reset
    /\ obs.steps < MaxRunSteps
    /\ ~Bus_poll_nmi_status(Machine)
    /\ ~Bus_mem_read_panics(Machine, cpu.pc)
    /\ CPU_fetch(cpu, Machine) \in DOMAIN OPCODE_TABLE
    /\ IF CPU_run_iteration_panics(cpu, Machine)
       THEN /\ obs' = [obs EXCEPT !.panic = TRUE, !.steps = @ + 1]
            /\ UNCHANGED <<ppu, bus, cpu>>
       ELSE \E s \in {CPU_run_iteration(cpu, Machine)} :
               /\ cpu' = s.cpu
               /\ ppu' = s.m.ppu
               /\ bus' = s.m.bus
               /\ obs' = [obs EXCEPT
                            !.op = OPCODE_TABLE[CPU_fetch(cpu, Machine)].code,
                            !.p = cpu.pc, !.sp0 = cpu.sp,
                            !.returned = s.returned, !.steps = @ + 1]

NextRun == RunReset \/ RunStep

SpecRun == InitRun /\ [][NextRun]_vars

\* The step is an iteration that executed the instruction code.
Executed(code) == obs'.steps = obs.steps + 1 /\ ~obs'.panic /\ obs'.op = code

\* The byte and the little-endian word the processor reads at addr.
MemByte(addr) == Bus_mem_read(Machine, u16(addr)).ret

MemWord(addr) == MemByte(addr) + 256 * MemByte(addr + 1)

\* C32: BRK at P pushes P+2 and the status with B and bit 5 set, sets I,
\* loads PC from the word at 0xFFFE, and the loop goes on.
C32_BrkIsInterrupt ==
    [][ Executed("BRK") =>
          /\ bus'.cpu_vram =
                 Pushed(Pushed(Pushed(bus.cpu_vram, cpu.sp, u16(cpu.pc + 2) \div 256),
                               cpu.sp + 255, u16(cpu.pc + 2) % 256),
                        cpu.sp + 254, insert(insert(cpu.status, FLAG_B), FLAG_5))
          /\ cpu'.sp = (cpu.sp + 253) % 256
          /\ contains(cpu'.status, FLAG_I)
          /\ cpu'.pc = IrqVector
          /\ ~obs'.returned ]_vars

\* The offset of the branch at the program counter as a signed number, the
\* address after the branch and the branch's target.
BranchOffset == IF MemByte(cpu.pc + 1) >= 128 THEN MemByte(cpu.pc + 1) - 256
                ELSE MemByte(cpu.pc + 1)

AfterBranch == u16(cpu.pc + 2)

BranchTarget == u16(AfterBranch + BranchOffset + 65536)

\* C33: a branch not taken costs its 2 cycles and goes on after the branch;
\* a taken branch costs 1 more when its target is on the page of the
\* address after the branch and 2 more when it is not, and goes to the
\* address after the branch plus the signed offset.
C33_BranchCycles ==
    [][ \A code \in Branches :
          Executed(code) =>
             IF CPU_branch_taken(cpu, code)
             THEN /\ cpu'.pc = BranchTarget
                  /\ bus'.cycles = bus.cycles + 2 +
                        (IF BranchTarget \div 256 = AfterBranch \div 256 THEN 1 ELSE 2)
             ELSE /\ cpu'.pc = AfterBranch
                  /\ bus'.cycles = bus.cycles + 2 ]_vars

\* C34: JSR at P to T leaves the high byte of P+2 at 0x0100 + SP and the low
\* byte below it in the stack page, lowers SP by 2 and sets PC to T; an RTS
\* right after it sets PC to P+3 and SP to its value before the JSR.
C34_JsrRts ==
    [][ /\ Executed("JSR") =>
             /\ bus'.cpu_vram =
                    Pushed(Pushed(bus.cpu_vram, cpu.sp, u16(cpu.pc + 2) \div 256),
                           cpu.sp + 255, u16(cpu.pc + 2) % 256)
             /\ cpu'.sp = (cpu.sp + 254) % 256
             /\ cpu'.pc = MemWord(cpu.pc + 1)
        /\ (obs.op = "JSR" /\ Executed("RTS")) =>
             /\ cpu'.pc = u16(obs.p + 3)
             /\ cpu'.sp = obs.sp0 ]_vars

\* C35: JMP indirect through Q sets PC to the byte at Q plus 256 times the
\* byte at Q+1, or, when Q's low byte is 0xFF, 256 times the byte at the
\* start of Q's page.
C35_JmpIndirect ==
    [][ (Executed("JMP") /\ MemByte(cpu.pc) = \H6C) =>
          LET Q == MemWord(cpu.pc + 1)
          IN  cpu'.pc = MemByte(Q) + 256 * (IF Q % 256 = \HFF
                                            THEN MemByte(Q - \HFF)
                                            ELSE MemByte(Q + 1)) ]_vars

\* The loop has jumped through the pointer 0x90FF, whose page starts with
\* 0x12 and which holds 0x34 and is followed by 0x56.
C35_Witness == obs.op = "JMP" /\ obs.p = \H8000 /\ cpu.pc = \H1234

\* The registers ADC leaves for the accumulator a, the operand v and the
\* carry-in cin: whether the flag is set in the status st.
SignBit(b) == b \div 128

AdcHolds(a, v, cin, c) ==
    LET result == (a + v + cin) % 256
    IN  /\ c.reg_a = result
        /\ contains(c.status, FLAG_C) <=> (a + v + cin > \HFF)
        /\ contains(c.status, FLAG_V) <=>
              (SignBit(a) = SignBit(v) /\ SignBit(result) # SignBit(a))
        /\ contains(c.status, FLAG_Z) <=> (result = 0)
        /\ contains(c.status, FLAG_N) <=> (SignBit(result) = 1)

CarryIn == IF contains(cpu.status, FLAG_C) THEN 1 ELSE 0

\* C36: ADC leaves A = (A + M + c) mod 256, C iff the sum exceeds 0xFF, V
\* iff A and M have the same sign and the result another, Z iff the result
\* is 0 and N as the result's bit 7; SBC leaves what ADC leaves for the
\* complement of M.
C36_AdcSbc ==
    [][ /\ Executed("ADC") =>
             AdcHolds(cpu.reg_a, MemByte(cpu.pc + 1), CarryIn, cpu')
        /\ Executed("SBC") =>
             AdcHolds(cpu.reg_a, 255 - MemByte(cpu.pc + 1), CarryIn, cpu') ]_vars

\* 0x7F + 0x01 with the carry set has given 0x81 with V and N.
C36_Witness ==
    /\ obs.op = "ADC"
    /\ cpu.reg_a = \H81
    /\ contains(cpu.status, FLAG_V)
    /\ ~contains(cpu.status, FLAG_C)

(***************************************************************************)
(* SpecMirroring: the address and data ports on a picture processor made   *)
(* with each of the five values of Mirroring, with the address bytes of    *)
(* the first and last 256 bytes of each logical nametable.                 *)
(***************************************************************************)
AllMirrorings == {"VERTICAL", "HORIZONTAL", "SINGLE_LOWER", "SINGLE_UPPER", "FOUR_SCREEN"}

MirroringBytes == {\H00, \H20, \H23, \H24, \H27, \H28, \H2B, \H2C, \H2F, \HFF}

InitMirroring ==
    /\ cpu = CPU_new
    /\ \E mirroring \in AllMirrorings : ppu = NesPPU_new_rom(ChrRom, mirroring)
    /\ bus = Bus_new
    /\ obs = [op |-> "new", ret |-> 0, panic |-> FALSE,
              accesses |-> 0, writes |-> 0, log |-> <<>>]

NextMirroring ==
    \/ \E data \in MirroringBytes : VramWriteAddr(data)
    \/ \E data \in DataBytes : VramWriteData(data)
    \/ VramReadData

SpecMirroring == InitMirroring /\ [][NextMirroring]_vars

\* C38: whatever the mirroring, a VRAM pointer in 0x2000..0x2FFF resolves
\* to a nametable index below 0x800, and no access of the data port with
\* such a pointer aborts.
C38_NametableIndex ==
    [][ /\ InNametables(AddrRegister_get(ppu.addr)) =>
              NesPPU_mirror_vram_addr(ppu, AddrRegister_get(ppu.addr)) < \H800
        /\ (obs'.op \in {"read_data", "write_to_data"}
              /\ InNametables(AddrRegister_get(ppu.addr))) => ~obs'.panic ]_vars

\* C39 (on SpecMapper1, whose program-ROM has four 16 KiB banks): after any
\* writes to the registers, a read of any address of the program window
\* indexes inside program-ROM.
C39_PrgReadsInRom ==
    \A addr \in PrgAddrs :
        Mapper1_prg_rom_index(bus.mapper, addr) < bus.mapper.prg_rom.len

====
